---------------------------- MODULE Spec2Model ----------------------------
(***************************************************************************)
(* State-machine model of the UF23 Galactic magnetic field code:           *)
(*   UF23Field            (src/UF23Field.h, src/UF23Field.cc)              *)
(*   ParameterCovariance  (src/ParameterCovariance.h, .cc)                 *)
(*   testCovariance main  (src/testCovariance.cxx)                         *)
(*   sampleUF23Field main and losIntegral (src/sampleUF23Field.cxx)        *)
(*                                                                         *)
(* Numbers.                                                                *)
(*  - The parameters of UF23Field are C++ doubles.  They are modelled as   *)
(*    binary floating-point numbers [m, e] (value m * 2^e) with a          *)
(*    MantBits-bit mantissa and round-to-nearest-even multiplication and   *)
(*    division, so that the unit conversion of GetParameters and           *)
(*    SetParameters rounds as IEEE arithmetic does.  NaN, infinities,      *)
(*    overflow and underflow are outside the model.                        *)
(*  - sin, cos and tan are uninterpreted: their results are the terms      *)
(*    [fn |-> "sin", x |-> v] etc.                                         *)
(*  - The entries of the packed Cholesky factor are the decimal literals   *)
(*    of the source, <<m, x>> standing for m * 10^x, and the covariance    *)
(*    arithmetic is exact decimal arithmetic on them (signed numbers with  *)
(*    base-10^4 limbs), i.e. the rounding of the double sums is not        *)
(*    modelled there.                                                      *)
(*  - Positions and the maximum radius are drawn from integers, on which   *)
(*    double arithmetic is exact.                                          *)
(*  - The path length of losIntegral is accumulated with the rounded sum   *)
(*    FPlus and compared with FLess, so that l += dL can leave l unchanged *)
(*    as it does in doubles.                                               *)
(***************************************************************************)
EXTENDS Integers, Sequences, FiniteSets, TLC

(***************************************************************************)
(* Bounds of the model                                                     *)
(***************************************************************************)
\* mantissa width of the modelled floating-point format (double: 53)
MantBits == 6
\* largest model-type tag passed to a constructor (valid tags are 0..7)
MaxTag == 8
\* largest absolute value of a draw handed to GetRandomOffset
MaxNormal == 1
\* number of nonzero values a caller writes into a parameter
NumValues == 10

(***************************************************************************)
(* Floating-point layer                                                    *)
(***************************************************************************)
Abs(n) == IF n < 0 THEN -n ELSE n
Sgn(n) == IF n < 0 THEN -1 ELSE IF n = 0 THEN 0 ELSE 1
Min(a, b) == IF a <= b THEN a ELSE b

RECURSIVE BitLen(_)
BitLen(n) == IF n = 0 THEN 0 ELSE 1 + BitLen(n \div 2)

Zero == [m |-> 0, e |-> 0]
One == [m |-> 2^(MantBits - 1), e |-> -(MantBits - 1)]

IsNum(a) == "m" \in DOMAIN a

\* n * 2^e for a natural number n, rounded to MantBits bits, ties to even
Round(n, e) ==
  IF n = 0 THEN Zero
  ELSE LET len == BitLen(n) IN
       IF len <= MantBits
       THEN [m |-> n * 2^(MantBits - len), e |-> e - (MantBits - len)]
       ELSE LET k == len - MantBits
                q == n \div 2^k
                r == n % 2^k
                half == 2^(k - 1)
                q1 == IF r > half \/ (r = half /\ q % 2 = 1) THEN q + 1 ELSE q
            IN  IF q1 = 2^MantBits
                THEN [m |-> 2^(MantBits - 1), e |-> e + k + 1]
                ELSE [m |-> q1, e |-> e + k]

WithSign(s, a) == [m |-> s * a.m, e |-> a.e]

FNeg(a) == IF IsNum(a) THEN [m |-> -a.m, e |-> a.e] ELSE [fn |-> "neg", a |-> a]

\* a * b in double arithmetic; x * 1 is x and x * 0 is 0 for every finite
\* double x (the two zeros are not told apart)
FMul(a, b) ==
  IF IsNum(a) /\ IsNum(b)
  THEN WithSign(Sgn(a.m) * Sgn(b.m), Round(Abs(a.m) * Abs(b.m), a.e + b.e))
  ELSE IF a = Zero \/ b = Zero THEN Zero
  ELSE IF b = One THEN a
  ELSE IF a = One THEN b
  ELSE [fn |-> "mul", a |-> a, b |-> b]

\* a / b in double arithmetic; x / 1 is x for every double x, 0 / x is 0
\* for every finite x # 0, and x / 0 is not a finite double: it stays a term
FDiv(a, b) ==
  IF b = Zero THEN [fn |-> "div", a |-> a, b |-> b]
  ELSE IF a = Zero THEN Zero
  ELSE IF IsNum(a) /\ IsNum(b)
  THEN LET n == Abs(a.m) * 2^(MantBits + 2)
           q == n \div Abs(b.m)
           s == IF n % Abs(b.m) = 0 THEN 0 ELSE 1
       IN  WithSign(Sgn(a.m) * Sgn(b.m),
                    Round(2 * q + s, a.e - b.e - (MantBits + 3)))
  ELSE IF b = One THEN a
  ELSE [fn |-> "div", a |-> a, b |-> b]

\* the integer n times 2^e as a double, rounded
Rounded(n, e) == WithSign(Sgn(n), Round(Abs(n), e))

\* a + b of two numbers in double arithmetic: the exact sum, rounded
\* (the operands are evaluated once)
FPlus(a, b) ==
  CHOOSE s \in {IF x = Zero THEN y
                ELSE IF y = Zero THEN x
                ELSE CHOOSE t \in {Rounded(n, Min(x.e, y.e)) :
                                    n \in {x.m * 2^(x.e - Min(x.e, y.e))
                                            + y.m * 2^(y.e - Min(x.e, y.e))}} : TRUE
                : x \in {a}, y \in {b}} : TRUE

\* a < b of two numbers
FLess(a, b) ==
  \E x \in {a}, y \in {b} :
    IF x = Zero THEN y.m > 0
    ELSE IF y = Zero THEN x.m < 0
    ELSE x.m * 2^(x.e - Min(x.e, y.e)) < y.m * 2^(y.e - Min(x.e, y.e))

RECURSIVE LitBits(_, _, _, _)
LitBits(q, r, d, e) ==
  IF q >= 2^(MantBits + 1)
  THEN Round(2 * q + (IF r = 0 THEN 0 ELSE 1), e - 1)
  ELSE LitBits(2 * q + (IF 2 * r >= d THEN 1 ELSE 0), (2 * r) % d, d, e - 1)

\* the double nearest to the decimal literal n / d (n >= 0, d a power of ten)
Lit(n, d) == IF n = 0 THEN Zero ELSE LitBits(n \div d, n % d, d, 0)

\* the same for a literal n / (dh * dl) below one
RECURSIVE Lit2Bits(_, _, _, _, _, _)
Lit2Bits(q, rh, rl, dh, dl, e) ==
  IF q >= 2^(MantBits + 1)
  THEN Round(2 * q + (IF rh = 0 /\ rl = 0 THEN 0 ELSE 1), e - 1)
  ELSE LET l2 == 2 * rl
           h2 == 2 * rh + (l2 \div dl)
           b == IF h2 >= dh THEN 1 ELSE 0
       IN  Lit2Bits(2 * q + b, h2 - b * dh, l2 % dl, dh, dl, e - 1)

Lit2(n, dh, dl) ==
  IF n = 0 THEN Zero ELSE Lit2Bits(0, n \div dl, n % dl, dh, dl, 0)

\* a + b and a - b: only the sums with an exact zero are computed
FAdd(a, b) ==
  IF a = Zero THEN b
  ELSE IF b = Zero THEN a
  ELSE [fn |-> "add", a |-> a, b |-> b]

FSub(a, b) ==
  IF b = Zero THEN a
  ELSE IF a = Zero THEN FNeg(b)
  ELSE [fn |-> "sub", a |-> a, b |-> b]

\* the double of a small integer (a coordinate): exact, never rounded
FInt(n) == IF n = 0 THEN Zero ELSE [fn |-> "int", n |-> n]

\* libm functions, uninterpreted
Fn(name, args) == [fn |-> name, args |-> args]
FSin(a) == [fn |-> "sin", x |-> a]
FCos(a) == [fn |-> "cos", x |-> a]
FTan(a) == [fn |-> "tan", x |-> a]

(***************************************************************************)
(* Exact decimal layer (covariance arithmetic)                             *)
(*                                                                         *)
(* A number is [neg, mag]: mag is the little-endian sequence of base-10^4  *)
(* limbs of the magnitude, without leading zero limbs; zero is             *)
(* [neg |-> FALSE, mag |-> <<>>].                                          *)
(***************************************************************************)
Limb == 10^4

RECURSIVE StripZeros(_)
StripZeros(s) ==
  IF s = <<>> THEN s
  ELSE IF s[Len(s)] = 0 THEN StripZeros(SubSeq(s, 1, Len(s) - 1)) ELSE s

RECURSIVE NatLimbs(_)
NatLimbs(n) == IF n = 0 THEN <<>> ELSE <<n % Limb>> \o NatLimbs(n \div Limb)

LimbAt(s, i) == IF i <= Len(s) THEN s[i] ELSE 0

RECURSIVE AddMag(_, _, _, _)
AddMag(a, b, i, carry) ==
  IF i > Len(a) /\ i > Len(b)
  THEN (IF carry = 0 THEN <<>> ELSE <<carry>>)
  ELSE LET t == LimbAt(a, i) + LimbAt(b, i) + carry
       IN  <<t % Limb>> \o AddMag(a, b, i + 1, t \div Limb)

\* a - b for magnitudes with a >= b
RECURSIVE SubMag(_, _, _, _)
SubMag(a, b, i, borrow) ==
  IF i > Len(a) THEN <<>>
  ELSE LET t == LimbAt(a, i) - LimbAt(b, i) - borrow
       IN  IF t < 0 THEN <<t + Limb>> \o SubMag(a, b, i + 1, 1)
                    ELSE <<t>> \o SubMag(a, b, i + 1, 0)

\* -1, 0, 1 as a < b, a = b, a > b, comparing from the top limb down
RECURSIVE CmpFrom(_, _, _)
CmpFrom(a, b, i) ==
  IF i = 0 THEN 0
  ELSE IF a[i] < b[i] THEN -1
  ELSE IF a[i] > b[i] THEN 1
  ELSE CmpFrom(a, b, i - 1)

CmpMag(a, b) ==
  IF Len(a) < Len(b) THEN -1
  ELSE IF Len(a) > Len(b) THEN 1
  ELSE CmpFrom(a, b, Len(a))

RECURSIVE ColSum(_, _, _, _)
ColSum(a, b, k, i) ==
  IF i > Len(a) \/ i > k THEN 0
  ELSE (IF k + 1 - i <= Len(b) THEN a[i] * b[k + 1 - i] ELSE 0)
       + ColSum(a, b, k, i + 1)

RECURSIVE MulCols(_, _, _, _)
MulCols(a, b, k, carry) ==
  IF k > Len(a) + Len(b) THEN <<>>
  ELSE LET t == ColSum(a, b, k, 1) + carry
       IN  <<t % Limb>> \o MulCols(a, b, k + 1, t \div Limb)

MulMag(a, b) ==
  IF a = <<>> \/ b = <<>> THEN <<>> ELSE StripZeros(MulCols(a, b, 1, 0))

BZero == [neg |-> FALSE, mag |-> <<>>]
BMake(neg, mag) == [neg |-> neg /\ mag # <<>>, mag |-> mag]
BInt(n) == BMake(n < 0, NatLimbs(Abs(n)))

BAdd(x, y) ==
  IF x.neg = y.neg THEN BMake(x.neg, AddMag(x.mag, y.mag, 1, 0))
  ELSE IF CmpMag(x.mag, y.mag) >= 0
       THEN BMake(x.neg, StripZeros(SubMag(x.mag, y.mag, 1, 0)))
       ELSE BMake(y.neg, StripZeros(SubMag(y.mag, x.mag, 1, 0)))

BMul(x, y) == BMake(x.neg # y.neg, MulMag(x.mag, y.mag))

\* x <= y
BLeq(x, y) ==
  IF x.neg /\ ~y.neg THEN TRUE
  ELSE IF ~x.neg /\ y.neg THEN FALSE
  ELSE IF x.neg THEN CmpMag(x.mag, y.mag) >= 0
  ELSE CmpMag(x.mag, y.mag) <= 0


RECURSIVE BPow10(_)
BPow10(k) == IF k = 0 THEN BInt(1) ELSE BMul(BInt(10), BPow10(k - 1))

\* the sum of a sequence of numbers
RECURSIVE BSum(_)
BSum(s) == IF s = <<>> THEN BZero ELSE BAdd(s[1], BSum(Tail(s)))

(***************************************************************************)
(* UF23Field::ModelType and UF23Field::EPar                                *)
(***************************************************************************)
base == 0
neCL == 1
expX == 2
spur == 3
cre10 == 4
synCG == 5
twistX == 6
nebCor == 7

ModelType == {base, neCL, expX, spur, cre10, synCG, twistX, nebCor}

\* the values a caller can pass as a ModelType (an enum is an integer)
Tags == 0..MaxTag

eDiskB1 == 0
eDiskB2 == 1
eDiskB3 == 2
eDiskH == 3
eDiskPhase1 == 4
eDiskPhase2 == 5
eDiskPhase3 == 6
eDiskPitch == 7
eDiskW == 8
ePoloidalA == 9
ePoloidalB == 10
ePoloidalP == 11
ePoloidalR == 12
ePoloidalW == 13
ePoloidalZ == 14
ePoloidalXi == 15
eSpurCenter == 16
eSpurLength == 17
eSpurWidth == 18
eStriation == 19
eToroidalBN == 20
eToroidalBS == 21
eToroidalR == 22
eToroidalW == 23
eToroidalZ == 24
eTwistingTime == 25
eNpar == 26

(***************************************************************************)
(* ParameterCovariance                                                     *)
(***************************************************************************)
\* fL of the base model: the literals m.mmmmme+xx as <<mmmmmm, xx - 5>>
LBase ==
  <<
     <<139562, -6>>, <<-654085, -7>>, <<196911, -6>>, <<266170, -8>>, <<739673, -7>>,
     <<131233, -6>>, <<438627, -5>>, <<-573125, -5>>, <<396343, -6>>, <<448478, -5>>,
     <<-276039, -6>>, <<-839084, -6>>, <<-127464, -5>>, <<203763, -5>>, <<113046, -5>>,
     <<670593, -6>>, <<135176, -6>>, <<-382145, -6>>, <<177802, -5>>, <<854741, -6>>,
     <<489239, -6>>, <<532912, -7>>, <<-253639, -7>>, <<-878323, -10>>, <<960822, -7>>,
     <<559280, -7>>, <<199711, -7>>, <<199797, -7>>, <<809574, -7>>, <<-522914, -7>>,
     <<104681, -6>>, <<401155, -7>>, <<124853, -7>>, <<-157598, -7>>, <<380346, -7>>,
     <<273338, -6>>, <<-609083, -7>>, <<535443, -7>>, <<-102965, -6>>, <<-451922, -7>>,
     <<521954, -8>>, <<573934, -8>>, <<-437831, -7>>, <<-250744, -6>>, <<574450, -7>>,
     <<431914, -8>>, <<109432, -7>>, <<191788, -7>>, <<300872, -7>>, <<-102555, -7>>,
     <<-885333, -8>>, <<331359, -7>>, <<-799971, -8>>, <<382178, -9>>, <<163701, -6>>,
     <<251630, -7>>, <<273540, -7>>, <<749086, -7>>, <<513695, -7>>, <<103048, -7>>,
     <<-191850, -7>>, <<437730, -7>>, <<599822, -7>>, <<277696, -8>>, <<179149, -6>>,
     <<336912, -6>>, <<-543659, -7>>, <<673414, -7>>, <<-252585, -6>>, <<-128087, -6>>,
     <<972050, -8>>, <<455441, -7>>, <<-102084, -6>>, <<-526943, -6>>, <<865182, -7>>,
     <<138017, -7>>, <<219318, -6>>, <<234028, -6>>, <<730502, -8>>, <<-596256, -8>>,
     <<-277896, -8>>, <<-196214, -8>>, <<-129403, -8>>, <<357595, -8>>, <<-157752, -8>>,
     <<116935, -7>>, <<-315322, -8>>, <<550079, -8>>, <<258879, -8>>, <<128416, -7>>,
     <<251867, -7>>, <<-780606, -9>>, <<-608968, -9>>, <<-331634, -8>>, <<-100560, -8>>,
     <<-190903, -8>>, <<522164, -9>>, <<215408, -8>>, <<340526, -8>>, <<610413, -8>>,
     <<525004, -8>>, <<-304494, -8>>, <<-119098, -8>>, <<-357288, -7>>, <<842481, -7>>,
     <<-472065, -8>>, <<426466, -8>>, <<-448180, -8>>, <<110559, -8>>, <<-383847, -8>>,
     <<-747686, -10>>, <<333721, -8>>, <<-221504, -8>>, <<-166635, -8>>, <<-213078, -8>>,
     <<-100434, -8>>, <<-941848, -8>>, <<-272426, -7>>, <<275402, -7>>, <<391601, -7>>,
     <<-138041, -8>>, <<149083, -8>>, <<-793107, -10>>, <<125911, -9>>, <<-467348, -9>>,
     <<-921439, -9>>, <<943735, -9>>, <<-252732, -8>>, <<110854, -8>>, <<283980, -9>>,
     <<-117611, -10>>, <<-239549, -8>>, <<944256, -8>>, <<297175, -8>>, <<294127, -8>>,
     <<262734, -7>>, <<300997, -8>>, <<966463, -8>>, <<-227886, -8>>, <<220331, -8>>,
     <<440898, -8>>, <<265953, -9>>, <<-937628, -8>>, <<-245932, -7>>, <<-222911, -7>>,
     <<-293409, -7>>, <<267895, -7>>, <<963532, -8>>, <<164344, -6>>, <<-339396, -6>>,
     <<855500, -7>>, <<772724, -8>>, <<992386, -7>>, <<119129, -7>>, <<-656950, -8>>,
     <<983770, -8>>, <<400257, -8>>, <<926317, -9>>, <<-147288, -8>>, <<554780, -8>>,
     <<198617, -7>>, <<723500, -9>>, <<189532, -8>>, <<-119248, -8>>, <<127725, -7>>,
     <<-240595, -8>>, <<-243196, -8>>, <<-139745, -8>>, <<128483, -8>>, <<170057, -8>>,
     <<114572, -7>>, <<804304, -8>>, <<-429058, -8>>, <<163228, -8>>, <<-740672, -9>>,
     <<103992, -8>>, <<184515, -8>>, <<239947, -8>>, <<722288, -8>>, <<445706, -8>>,
     <<-199596, -8>>, <<-943494, -9>>, <<635893, -8>>, <<-628036, -8>>, <<-377930, -8>>,
     <<-235889, -8>>, <<289818, -8>>, <<310305, -8>>, <<884379, -8>>, <<167461, -7>>,
     <<-103959, -7>>, <<863190, -8>>, <<541233, -8>>, <<396455, -8>>, <<128257, -8>>,
     <<-417208, -8>>, <<165391, -8>>, <<-158028, -7>>, <<341188, -8>>, <<-883596, -8>>,
     <<-181508, -8>>, <<-179711, -7>>, <<-611229, -8>>, <<-302850, -8>>, <<-175780, -8>>,
     <<312418, -8>>, <<324976, -8>>, <<501505, -8>>, <<419117, -8>>, <<990420, -8>>
  >>

\* the number of decimal places of the literals of fL
DecScale ==
  LET xs == {LBase[k][2] : k \in 1..Len(LBase)}
  IN  -(CHOOSE a \in xs : \A b \in xs : a <= b)

\* the decimal literal <<m, x>> (m * 10^x) in units of 10^-DecScale
DecValue(d) == BMul(BInt(d[1]), BPow10(d[2] + DecScale))

\* index list with the toroidal width in place of the second toroidal radius
BaseIndicesWithWidth ==
  <<eDiskB1, eDiskB2, eDiskB3, eDiskPhase1,
    eDiskPhase2, eDiskPhase3, eDiskPitch,
    eToroidalBN, eToroidalBS, eToroidalR,
    eToroidalW, eToroidalZ, ePoloidalB, ePoloidalP,
    ePoloidalR, ePoloidalW, ePoloidalZ, eDiskH,
    eDiskW, eStriation>>

BaseIndices ==
  <<eDiskB1, eDiskB2, eDiskB3, eDiskPhase1,
    eDiskPhase2, eDiskPhase3, eDiskPitch,
    eToroidalBN, eToroidalBS, eToroidalR,
    eToroidalR, eToroidalZ, ePoloidalB, ePoloidalP,
    ePoloidalR, ePoloidalW, ePoloidalZ, eDiskH,
    eDiskW, eStriation>>

\* floor of the square root
ISqrt(n) == CHOOSE k \in 0..n : k * k <= n /\ n < (k + 1) * (k + 1)

\* the lambda index of VfromL
index(i, j) == (i * (i + 1)) \div 2 + j

\* const unsigned int n = (sqrt(1+8*L.size()) - 1) / 2;
VDimensionNoOne(L) == (ISqrt(8 * Len(L)) - 1) \div 2
VDimension(L) == (ISqrt(1 + 8 * Len(L)) - 1) \div 2

\* L[k] of the std::vector  (reading past the end is undefined behaviour;
\* VfromL never does, see the claim on VfromL)
LAt(L, k) == IF k < Len(L) THEN L[k + 1] ELSE BZero

\* the bound of the k loop of VfromL
KBoundMax(i, j) == IF i >= j THEN i ELSE j
KBound(i, j) == Min(i, j)

\* for (k = 0; k <= std::min(i, j); ++k) sum += L[index(i, k)] * L[index(j, k)];
RECURSIVE VSum(_, _, _, _, _)
VSum(L, i, j, k, sum) ==
  IF k > KBound(i, j) THEN sum
  ELSE VSum(L, i, j, k + 1,
            BAdd(sum, BMul(LAt(L, index(i, k)), LAt(L, index(j, k)))))

\* the function f on 1..n as a sequence
AsSeq(f, n) == SubSeq(f, 1, n)

\* The loops over i and j <= i store the sum of the pair (i, j) in V[i][j]
\* and, when i # j, in V[j][i]; every cell is written exactly once.
\* V[i][j] of the std::vector is VfromL(L)[i + 1][j + 1].
VfromL(L) ==
  LET n == VDimension(L)
  IN  AsSeq([i \in 1..n |->
              AsSeq([j \in 1..n |->
                      IF j <= i THEN VSum(L, i - 1, j - 1, 0, BZero)
                                ELSE VSum(L, j - 1, i - 1, 0, BZero)], n)], n)

\* fL of the base model: the literals as exact numbers
fLBase == AsSeq([k \in 1..Len(LBase) |-> DecValue(LBase[k])], Len(LBase))

\* the switch of the constructor: only the base model has a case
CtorThrows(mt) == mt # base

\* ParameterCovariance::ParameterCovariance(mt): the object, or the exception
ParameterCovarianceCtor(mt) ==
  IF CtorThrows(mt)
  THEN [ok |-> FALSE, what |-> "unknown field model",
        fModelType |-> mt, fL |-> <<>>, fIndices |-> <<>>, fV |-> <<>>]
  ELSE [ok |-> TRUE, what |-> "",
        fModelType |-> mt, fL |-> fLBase, fIndices |-> BaseIndices,
        fV |-> VfromL(fLBase)]

\* The constructor is a function of the tag alone; CovarianceObjects[mt + 1]
\* is its result for the tag mt, evaluated once.
CovarianceObjects ==
  AsSeq([k \in 1..(MaxTag + 1) |-> ParameterCovarianceCtor(k - 1)], MaxTag + 1)

\* the k-th unit vector of length n
UnitVector(n, k) == [i \in 1..n |-> IF i = k THEN 1 ELSE 0]

\* the draws handed to GetRandomOffset of an object of dimension n: the first
\* and the last unit vector, an alternating vector and the constant vectors
TestNormalSeq(n) ==
  AsSeq([j \in 1..(2 * MaxNormal + 4) |->
          IF j = 1 THEN UnitVector(n, 1)
          ELSE IF j = 2 THEN UnitVector(n, n)
          ELSE IF j = 3
          THEN [k \in 1..n |-> IF k % 2 = 0 THEN MaxNormal ELSE -MaxNormal]
          ELSE [k \in 1..n |-> j - 4 - MaxNormal]], 2 * MaxNormal + 4)

TestNormals(n) == {TestNormalSeq(n)[j] : j \in 1..(2 * MaxNormal + 4)}

\* std::vector<double> GetRandomOffset(const std::vector<double>& n) const:
\* delta = L * n, row i of the packed lower triangle times n[0..i].
\* The draws n are integers here, delta is in units of 10^-DecScale.
RECURSIVE RowSum(_, _, _, _, _)
RowSum(L, z, i, k, sum) ==
  IF k > i THEN sum
  ELSE RowSum(L, z, i, k + 1,
              BAdd(sum, BMul(LAt(L, index(i, k)), BInt(z[k + 1]))))

\* (the product without the first column)
GetRandomOffsetFromSecond(self, z) ==
  LET n == Len(self.fIndices)
  IN  AsSeq([i \in 1..n |-> RowSum(self.fL, z, i - 1, 1, BZero)], n)

LTimes(self, z) ==
  LET n == Len(self.fIndices)
  IN  AsSeq([i \in 1..n |-> RowSum(self.fL, z, i - 1, 0, BZero)], n)

\* LTimes of the objects the constructor builds and the draws of
\* TestNormalSeq, evaluated once
DrawnOffsets ==
  AsSeq([t \in 1..(MaxTag + 1) |->
          IF CovarianceObjects[t].ok
          THEN AsSeq([j \in 1..(2 * MaxNormal + 4) |->
                       LTimes(CovarianceObjects[t],
                              TestNormalSeq(Len(CovarianceObjects[t].fIndices))[j])],
                     2 * MaxNormal + 4)
          ELSE <<>>], MaxTag + 1)

\* L * z, looked up where it has been evaluated
GetRandomOffset(self, z) ==
  IF /\ self = CovarianceObjects[self.fModelType + 1]
     /\ z \in TestNormals(Len(self.fIndices))
  THEN DrawnOffsets[self.fModelType + 1]
         [CHOOSE j \in 1..(2 * MaxNormal + 4) :
            TestNormalSeq(Len(self.fIndices))[j] = z]
  ELSE LTimes(self, z)

\* GetRandomOffset is a const member function: the object afterwards
ConstThisZeroed(self) == [self EXCEPT !.fL[1] = BZero]
ConstThis(self) == self

(***************************************************************************)
(* testCovariance.cxx                                                      *)
(***************************************************************************)
\* the models of the test, in the order of parUncertainties
TestModels == <<base, neCL, spur, cre10, synCG, twistX, nebCor>>

\* the fitted 1-sigma uncertainties, <<m, x>> for m * 10^x
parUncertainties ==
  <<
     <<<<139562, -6>>, <<207490, -6>>, <<150666, -6>>, <<850628, -5>>,
       <<279908, -5>>, <<217837, -5>>, <<129000, -6>>, <<313721, -6>>,
       <<295585, -6>>, <<171916, -6>>, <<401536, -6>>, <<698928, -6>>,
       <<331716, -7>>, <<921029, -7>>, <<567779, -7>>, <<285741, -7>>,
       <<403012, -6>>, <<323158, -7>>, <<254924, -7>>, <<335535, -7>>>>,
     <<<<260831, -6>>, <<442244, -6>>, <<335928, -6>>, <<110198, -4>>,
       <<115391, -4>>, <<440871, -5>>, <<381541, -6>>, <<168869, -6>>,
       <<170805, -6>>, <<196978, -6>>, <<290310, -6>>, <<815647, -6>>,
       <<314437, -7>>, <<106173, -6>>, <<478309, -7>>, <<297868, -7>>,
       <<280728, -6>>, <<182163, -7>>, <<195662, -7>>, <<293311, -7>>>>,
     <<<<178487, -6>>, <<296851, -5>>, <<302899, -5>>, <<139776, -5>>,
       <<600781, -6>>, <<603047, -6>>, <<231994, -6>>, <<209938, -6>>,
       <<126714, -6>>, <<300170, -6>>, <<144234, -5>>, <<370432, -7>>,
       <<942209, -7>>, <<626714, -7>>, <<342806, -7>>, <<421980, -6>>,
       <<274039, -7>>, <<237013, -7>>, <<333899, -7>>>>,
     <<<<137551, -6>>, <<212666, -6>>, <<154310, -6>>, <<763918, -5>>,
       <<278251, -5>>, <<216503, -5>>, <<127801, -6>>, <<367982, -6>>,
       <<344655, -6>>, <<198773, -6>>, <<427906, -6>>, <<368252, -6>>,
       <<337385, -7>>, <<922778, -7>>, <<617850, -7>>, <<268308, -7>>,
       <<415623, -6>>, <<325121, -7>>, <<246556, -7>>, <<325265, -7>>>>,
     <<<<115009, -6>>, <<195630, -6>>, <<137095, -6>>, <<125124, -4>>,
       <<332470, -5>>, <<237141, -5>>, <<132221, -6>>, <<121392, -6>>,
       <<107223, -6>>, <<759803, -7>>, <<160971, -6>>, <<817610, -6>>,
       <<243071, -7>>, <<939734, -7>>, <<478600, -7>>, <<215930, -7>>,
       <<241330, -6>>, <<176676, -7>>, <<181933, -7>>, <<360745, -7>>>>,
     <<<<172433, -6>>, <<302179, -6>>, <<258401, -6>>, <<114489, -4>>,
       <<102541, -4>>, <<605790, -5>>, <<442235, -6>>, <<196082, -7>>,
       <<994098, -7>>, <<355133, -7>>, <<349911, -7>>, <<974237, -7>>,
       <<108954, -5>>, <<479921, -7>>, <<692482, -7>>, <<371599, -7>>>>,
     <<<<186530, -6>>, <<270900, -6>>, <<208219, -6>>, <<847780, -5>>,
       <<322057, -5>>, <<247712, -5>>, <<143782, -6>>, <<409198, -6>>,
       <<399025, -6>>, <<172479, -6>>, <<405704, -6>>, <<576313, -6>>,
       <<364884, -7>>, <<978361, -7>>, <<655231, -7>>, <<330546, -7>>,
       <<512207, -6>>, <<269670, -7>>, <<248811, -7>>>>
  >>

\* CloseTo(sqrt(v), b) for v >= 0 and b >= 0:
\* |sqrt(v) - b| <= 1e-5 * max(sqrt(v), b), compared on the squares
\* (v in units of 10^-(2 DecScale), b in units of 10^-DecScale)
CloseTo(v, b) ==
  LET bb == BMul(b, b)
      lo == BMul(BInt(10^5 - 1), BInt(10^5 - 1))
      hi == BPow10(10)
  IN  IF BLeq(bb, v) THEN BLeq(BMul(v, lo), BMul(bb, hi))
                     ELSE BLeq(BMul(bb, lo), BMul(v, hi))

(***************************************************************************)
(* UF23Field: units and parameters                                         *)
(***************************************************************************)
kPi == Lit(31415927, 10000000)
degree == FDiv(kPi, Lit(180, 1))
kpc == One
microgauss == One
megayear == One
\* a scale a thousand times smaller than Gpc
ThousandKpc == FMul(Lit(1000, 1), kpc)
Gpc == FMul(Lit(1000000, 1), kpc)

\* utl::unitConv; unitConv[i] of the std::vector is unitConv[i + 1]
unitConv ==
  << microgauss, microgauss, microgauss, kpc,
     degree, degree, degree, degree,
     kpc, kpc, microgauss, One, kpc, kpc, kpc,
     degree, degree, degree, degree,
     One, microgauss, microgauss, kpc, kpc, kpc,
     megayear >>

\* The cases of the switch of the constructor.  p0 is fParameters before the
\* switch; the literal d.ddddddde+xx is Lit(dddddddd, 10^(7 - xx)),
\* and Lit2(dddddddd, 10^9, 10^(7 - xx - 9)) when 10^(7 - xx) exceeds 10^9.
Case_base(p0) ==
  [p0 EXCEPT
     ![eDiskB1] = FMul(Lit(10878565, 10000000), microgauss),
     ![eDiskB2] = FMul(Lit(26605034, 10000000), microgauss),
     ![eDiskB3] = FMul(Lit(31166311, 10000000), microgauss),
     ![eDiskH] = FMul(Lit(79408965, 100000000), kpc),
     ![eDiskPhase1] = FMul(Lit(26316589, 100000), degree),
     ![eDiskPhase2] = FMul(Lit(97782269, 1000000), degree),
     ![eDiskPhase3] = FMul(Lit(35112281, 1000000), degree),
     ![eDiskPitch] = FMul(Lit(10106900, 1000000), degree),
     ![eDiskW] = FMul(Lit(10720909, 100000000), kpc),
     ![ePoloidalB] = FMul(Lit(97775487, 100000000), microgauss),
     ![ePoloidalP] = FMul(Lit(14266186, 10000000), kpc),
     ![ePoloidalR] = FMul(Lit(72925417, 10000000), kpc),
     ![ePoloidalW] = FMul(Lit(11188158, 100000000), kpc),
     ![ePoloidalZ] = FMul(Lit(44597373, 10000000), kpc),
     ![eStriation] = Lit(34557571, 100000000),
     ![eToroidalBN] = FMul(Lit(32556760, 10000000), microgauss),
     ![eToroidalBS] = FMul(FNeg(Lit(30914569, 10000000)), microgauss),
     ![eToroidalR] = FMul(Lit(10193815, 1000000), kpc),
     ![eToroidalW] = FMul(Lit(16936993, 10000000), kpc),
     ![eToroidalZ] = FMul(Lit(40242749, 10000000), kpc)]

Case_cre10(p0) ==
  [p0 EXCEPT
     ![eDiskB1] = FMul(Lit(12035697, 10000000), microgauss),
     ![eDiskB2] = FMul(Lit(27478490, 10000000), microgauss),
     ![eDiskB3] = FMul(Lit(32104342, 10000000), microgauss),
     ![eDiskH] = FMul(Lit(80844932, 100000000), kpc),
     ![eDiskPhase1] = FMul(Lit(26515882, 100000), degree),
     ![eDiskPhase2] = FMul(Lit(98211313, 1000000), degree),
     ![eDiskPhase3] = FMul(Lit(35944588, 1000000), degree),
     ![eDiskPitch] = FMul(Lit(10162759, 1000000), degree),
     ![eDiskW] = FMul(Lit(10824003, 100000000), kpc),
     ![ePoloidalB] = FMul(Lit(96938453, 100000000), microgauss),
     ![ePoloidalP] = FMul(Lit(14150957, 10000000), kpc),
     ![ePoloidalR] = FMul(Lit(72987296, 10000000), kpc),
     ![ePoloidalW] = FMul(Lit(10923051, 100000000), kpc),
     ![ePoloidalZ] = FMul(Lit(45748332, 10000000), kpc),
     ![eStriation] = Lit(24950386, 100000000),
     ![eToroidalBN] = FMul(Lit(37308133, 10000000), microgauss),
     ![eToroidalBS] = FMul(FNeg(Lit(35039958, 10000000)), microgauss),
     ![eToroidalR] = FMul(Lit(10407507, 1000000), kpc),
     ![eToroidalW] = FMul(Lit(17398375, 10000000), kpc),
     ![eToroidalZ] = FMul(Lit(29272800, 10000000), kpc)]

Case_nebCor(p0) ==
  [p0 EXCEPT
     ![eDiskB1] = FMul(Lit(14081935, 10000000), microgauss),
     ![eDiskB2] = FMul(Lit(35292400, 10000000), microgauss),
     ![eDiskB3] = FMul(Lit(41290147, 10000000), microgauss),
     ![eDiskH] = FMul(Lit(81151971, 100000000), kpc),
     ![eDiskPhase1] = FMul(Lit(26447529, 100000), degree),
     ![eDiskPhase2] = FMul(Lit(97572660, 1000000), degree),
     ![eDiskPhase3] = FMul(Lit(36403798, 1000000), degree),
     ![eDiskPitch] = FMul(Lit(10151183, 1000000), degree),
     ![eDiskW] = FMul(Lit(11863734, 100000000), kpc),
     ![ePoloidalB] = FMul(Lit(13485916, 10000000), microgauss),
     ![ePoloidalP] = FMul(Lit(13414395, 10000000), kpc),
     ![ePoloidalR] = FMul(Lit(72473841, 10000000), kpc),
     ![ePoloidalW] = FMul(Lit(14318227, 100000000), kpc),
     ![ePoloidalZ] = FMul(Lit(48242603, 10000000), kpc),
     ![eStriation] = Lit2(38610837, 1000000000, 100000000),
     ![eToroidalBN] = FMul(Lit(46491142, 10000000), microgauss),
     ![eToroidalBS] = FMul(FNeg(Lit(45006610, 10000000)), microgauss),
     ![eToroidalR] = FMul(Lit(10205288, 1000000), kpc),
     ![eToroidalW] = FMul(Lit(17004868, 10000000), kpc),
     ![eToroidalZ] = FMul(Lit(35557767, 10000000), kpc)]

Case_neCL(p0) ==
  [p0 EXCEPT
     ![eDiskB1] = FMul(Lit(14259645, 10000000), microgauss),
     ![eDiskB2] = FMul(Lit(13543223, 10000000), microgauss),
     ![eDiskB3] = FMul(Lit(34390669, 10000000), microgauss),
     ![eDiskH] = FMul(Lit(67405199, 100000000), kpc),
     ![eDiskPhase1] = FMul(Lit(19961898, 100000), degree),
     ![eDiskPhase2] = FMul(Lit(13541461, 100000), degree),
     ![eDiskPhase3] = FMul(Lit(64909767, 1000000), degree),
     ![eDiskPitch] = FMul(Lit(11867859, 1000000), degree),
     ![eDiskW] = FMul(Lit(61162799, 1000000000), kpc),
     ![ePoloidalB] = FMul(Lit(98387831, 100000000), microgauss),
     ![ePoloidalP] = FMul(Lit(16773615, 10000000), kpc),
     ![ePoloidalR] = FMul(Lit(74084361, 10000000), kpc),
     ![ePoloidalW] = FMul(Lit(14168192, 100000000), kpc),
     ![ePoloidalZ] = FMul(Lit(36521188, 10000000), kpc),
     ![eStriation] = Lit(33600213, 100000000),
     ![eToroidalBN] = FMul(Lit(26256593, 10000000), microgauss),
     ![eToroidalBS] = FMul(FNeg(Lit(25699466, 10000000)), microgauss),
     ![eToroidalR] = FMul(Lit(10134257, 1000000), kpc),
     ![eToroidalW] = FMul(Lit(11547728, 10000000), kpc),
     ![eToroidalZ] = FMul(Lit(45585463, 10000000), kpc)]

Case_spur(p0) ==
  [p0 EXCEPT
     ![eDiskB1] = FMul(FNeg(Lit(42993328, 10000000)), microgauss),
     ![eDiskH] = FMul(Lit(75019749, 100000000), kpc),
     ![eDiskPhase1] = FMul(Lit(15589875, 100000), degree),
     ![eDiskPitch] = FMul(Lit(12074432, 1000000), degree),
     ![eDiskW] = FMul(Lit(12263120, 100000000), kpc),
     ![ePoloidalB] = FMul(Lit(99302987, 100000000), microgauss),
     ![ePoloidalP] = FMul(Lit(13982374, 10000000), kpc),
     ![ePoloidalR] = FMul(Lit(71973387, 10000000), kpc),
     ![ePoloidalW] = FMul(Lit(12262244, 100000000), kpc),
     ![ePoloidalZ] = FMul(Lit(44853270, 10000000), kpc),
     ![eSpurCenter] = FMul(Lit(15718686, 100000), degree),
     ![eSpurLength] = FMul(Lit(31839577, 1000000), degree),
     ![eSpurWidth] = FMul(Lit(10318114, 1000000), degree),
     ![eStriation] = Lit(33022369, 100000000),
     ![eToroidalBN] = FMul(Lit(29286724, 10000000), microgauss),
     ![eToroidalBS] = FMul(FNeg(Lit(25979895, 10000000)), microgauss),
     ![eToroidalR] = FMul(Lit(97536425, 10000000), kpc),
     ![eToroidalW] = FMul(Lit(14210055, 10000000), kpc),
     ![eToroidalZ] = FMul(Lit(60941229, 10000000), kpc)]

Case_synCG(p0) ==
  [p0 EXCEPT
     ![eDiskB1] = FMul(Lit(81386878, 100000000), microgauss),
     ![eDiskB2] = FMul(Lit(20586930, 10000000), microgauss),
     ![eDiskB3] = FMul(Lit(29437335, 10000000), microgauss),
     ![eDiskH] = FMul(Lit(62172353, 100000000), kpc),
     ![eDiskPhase1] = FMul(Lit(22988551, 100000), degree),
     ![eDiskPhase2] = FMul(Lit(97388282, 1000000), degree),
     ![eDiskPhase3] = FMul(Lit(32927367, 1000000), degree),
     ![eDiskPitch] = FMul(Lit(99034844, 10000000), degree),
     ![eDiskW] = FMul(Lit(66517521, 1000000000), kpc),
     ![ePoloidalB] = FMul(Lit(80883734, 100000000), microgauss),
     ![ePoloidalP] = FMul(Lit(15820957, 10000000), kpc),
     ![ePoloidalR] = FMul(Lit(74625235, 10000000), kpc),
     ![ePoloidalW] = FMul(Lit(15003765, 100000000), kpc),
     ![ePoloidalZ] = FMul(Lit(35338550, 10000000), kpc),
     ![eStriation] = Lit(63434763, 100000000),
     ![eToroidalBN] = FMul(Lit(23991193, 10000000), microgauss),
     ![eToroidalBS] = FMul(FNeg(Lit(20919944, 10000000)), microgauss),
     ![eToroidalR] = FMul(Lit(94227834, 10000000), kpc),
     ![eToroidalW] = FMul(Lit(91608418, 100000000), kpc),
     ![eToroidalZ] = FMul(Lit(55844594, 10000000), kpc)]

Case_twistX(p0) ==
  [p0 EXCEPT
     ![eDiskB1] = FMul(Lit(13741995, 10000000), microgauss),
     ![eDiskB2] = FMul(Lit(20089881, 10000000), microgauss),
     ![eDiskB3] = FMul(Lit(15212463, 10000000), microgauss),
     ![eDiskH] = FMul(Lit(93806180, 100000000), kpc),
     ![eDiskPhase1] = FMul(Lit(23560316, 100000), degree),
     ![eDiskPhase2] = FMul(Lit(10189856, 100000), degree),
     ![eDiskPhase3] = FMul(Lit(56187572, 1000000), degree),
     ![eDiskPitch] = FMul(Lit(12100979, 1000000), degree),
     ![eDiskW] = FMul(Lit(14933338, 100000000), kpc),
     ![ePoloidalB] = FMul(Lit(62793114, 100000000), microgauss),
     ![ePoloidalP] = FMul(Lit(23292519, 10000000), kpc),
     ![ePoloidalR] = FMul(Lit(79212358, 10000000), kpc),
     ![ePoloidalW] = FMul(Lit(29056201, 100000000), kpc),
     ![ePoloidalZ] = FMul(Lit(26274437, 10000000), kpc),
     ![eStriation] = Lit(77616317, 100000000),
     ![eTwistingTime] = FMul(Lit(54733549, 1000000), megayear)]

Case_expX(p0) ==
  LET p1 == [p0 EXCEPT
             ![eDiskB1] = FMul(Lit(99258148, 100000000), microgauss),
             ![eDiskB2] = FMul(Lit(21821124, 10000000), microgauss),
             ![eDiskB3] = FMul(Lit(31197345, 10000000), microgauss),
             ![eDiskH] = FMul(Lit(71508681, 100000000), kpc),
             ![eDiskPhase1] = FMul(Lit(24745741, 100000), degree),
             ![eDiskPhase2] = FMul(Lit(98578879, 1000000), degree),
             ![eDiskPhase3] = FMul(Lit(34884485, 1000000), degree),
             ![eDiskPitch] = FMul(Lit(10027070, 1000000), degree),
             ![eDiskW] = FMul(Lit(98524736, 1000000000), kpc),
             ![ePoloidalA] = FMul(Lit(61938701, 10000000), kpc),
             ![ePoloidalB] = FMul(Lit(58357990, 10000000), microgauss),
             ![ePoloidalP] = FMul(Lit(19510779, 10000000), kpc),
             ![ePoloidalR] = FMul(Lit(24994376, 10000000), kpc),
             ![ePoloidalXi] = FMul(Lit(20926122, 1000000), degree)]
      p2 == [p1 EXCEPT ![ePoloidalZ] = FMul(p1[ePoloidalA], FTan(p1[ePoloidalXi]))]
  IN  [p2 EXCEPT
             ![eStriation] = Lit(51440500, 100000000),
             ![eToroidalBN] = FMul(Lit(27077434, 10000000), microgauss),
             ![eToroidalBS] = FMul(FNeg(Lit(25677104, 10000000)), microgauss),
             ![eToroidalR] = FMul(Lit(10134022, 1000000), kpc),
             ![eToroidalW] = FMul(Lit(20956159, 10000000), kpc),
             ![eToroidalZ] = FMul(Lit(54564991, 10000000), kpc)]

\* the default case of the switch throws
SwitchNeverThrows(mt) == FALSE
SwitchThrows(mt) == mt \notin ModelType

Switch(mt, p0) ==
  CASE mt = base -> Case_base(p0)
    [] mt = cre10 -> Case_cre10(p0)
    [] mt = nebCor -> Case_nebCor(p0)
    [] mt = neCL -> Case_neCL(p0)
    [] mt = spur -> Case_spur(p0)
    [] mt = synCG -> Case_synCG(p0)
    [] mt = twistX -> Case_twistX(p0)
    [] mt = expX -> Case_expX(p0)
    [] OTHER -> p0

\* The parameters after the switch are a function of the tag alone:
\* SwitchResults[mt + 1] is fParameters for the tag mt, evaluated once.
\* (double fParameters[eNpar] = { 0 }; fPoloidalA = 1 * utl::Gpc; switch)
SwitchResults ==
  LET p0 == [i \in 0..(eNpar - 1) |-> Zero]
      p1 == [p0 EXCEPT ![ePoloidalA] = FMul(Lit(1, 1), Gpc)]
  IN  AsSeq([k \in 1..(MaxTag + 1) |-> Switch(k - 1, p1)], MaxTag + 1)

\* the object at the end of the constructor: the initialiser list and, after
\* the switch has set the parameters p2, the trigonometric members
Constructed(mt, maxRadiusInKpc, p2) ==
  [ok |-> TRUE, what |-> "",
   fModelType |-> mt,
   fMaxRadiusSquared |-> (maxRadiusInKpc * 1) * (maxRadiusInKpc * 1),
   fParameters |-> p2,
   fSinPitch |-> FSin(p2[eDiskPitch]),
   fCosPitch |-> FCos(p2[eDiskPitch]),
   fTanPitch |-> FTan(p2[eDiskPitch])]

\* UF23Field::UF23Field(mt, maxRadiusInKpc): the object, or the exception
UF23FieldCtor(mt, maxRadiusInKpc) ==
  IF SwitchThrows(mt)
  THEN [ok |-> FALSE, what |-> "unknown field model"]
  ELSE Constructed(mt, maxRadiusInKpc, SwitchResults[mt + 1])

(***************************************************************************)
(* UF23Field: operations on an object                                      *)
(*                                                                         *)
(* An object is a record self with the fields fModelType,                  *)
(* fMaxRadiusSquared, fParameters, fSinPitch, fCosPitch, fTanPitch.        *)
(***************************************************************************)
\* the stored values without the division by unitConv
GetParametersInternal(self) ==
  AsSeq([k \in 1..eNpar |-> self.fParameters[k - 1]], eNpar)

\* retVec.push_back(fParameters[i] / unitConv[i])
GetParameters(self) ==
  AsSeq([k \in 1..eNpar |-> FDiv(self.fParameters[k - 1], unitConv[k])], eNpar)

\* if (newpar.size() != eNpar) throw ...
SizeMismatchTooShort(newpar) == Len(newpar) < eNpar
SizeMismatch(newpar) == Len(newpar) # eNpar

\* fParameters[i] = newpar[i] * unitConv[i]
StoreDivided(newpar) ==
  [i \in 0..(eNpar - 1) |-> FDiv(newpar[i + 1], unitConv[i + 1])]
Store(newpar) ==
  [i \in 0..(eNpar - 1) |-> FMul(newpar[i + 1], unitConv[i + 1])]

\* SetParameters that stores the vector and leaves the derived members alone
SetParametersStoreOnly(self, newpar) ==
  [self EXCEPT !.fParameters = Store(newpar)]

\* UF23Field::SetParameters without the size check: the object afterwards
SetParameters(self, newpar) ==
  LET p1 == Store(newpar)
      p2 == IF self.fModelType = expX
            THEN [p1 EXCEPT ![ePoloidalZ] =
                               FMul(p1[ePoloidalA], FTan(p1[ePoloidalXi]))]
            ELSE p1
  IN  [self EXCEPT !.fParameters = p2,
                   !.fSinPitch = FSin(p1[eDiskPitch]),
                   !.fCosPitch = FCos(p1[eDiskPitch]),
                   !.fTanPitch = FTan(p1[eDiskPitch])]

\* if (fModelType == expX) fPoloidalZ = fPoloidalA*tan(fPoloidalXi), left out
DeriveZNever(self) == self

\* if (fModelType == expX) fPoloidalZ = fPoloidalA*tan(fPoloidalXi);
DeriveZ(self) ==
  IF self.fModelType = expX
  THEN [self EXCEPT !.fParameters[ePoloidalZ] =
                       FMul(self.fParameters[ePoloidalA],
                            FTan(self.fParameters[ePoloidalXi]))]
  ELSE self

\* the k-th statement SetParameters executes after the size checks: the
\* stores fParameters[k] = newpar[k] * unitConv[k] for k < eNpar, then the
\* assignments of fSinPitch, fCosPitch and fTanPitch, then that of fPoloidalZ
SetParametersStep(self, newpar, k) ==
  IF k < eNpar
  THEN [self EXCEPT !.fParameters[k] = FMul(newpar[k + 1], unitConv[k + 1])]
  ELSE IF k = eNpar
  THEN [self EXCEPT !.fSinPitch = FSin(self.fParameters[eDiskPitch])]
  ELSE IF k = eNpar + 1
  THEN [self EXCEPT !.fCosPitch = FCos(self.fParameters[eDiskPitch])]
  ELSE IF k = eNpar + 2
  THEN [self EXCEPT !.fTanPitch = FTan(self.fParameters[eDiskPitch])]
  ELSE DeriveZ(self)

\* the radius instead of its square
GetMaximumRadius(self) == ISqrt(self.fMaxRadiusSquared)

\* UF23Field::GetMaximumSquaredRadius: fMaxRadiusSquared / utl::kpc
GetMaximumSquaredRadius(self) == self.fMaxRadiusSquared \div 1

(***************************************************************************)
(* Field evaluation.  A position is <<x, y, z>> (integers, kpc).  The      *)
(* halo fields are vectors of double expressions: sums and products with   *)
(* an exact zero or one are computed, the libm calls stay terms.  The disk *)
(* fields away from the axis are the term of the function that computes    *)
(* them, the position, and the members of the object the function reads;   *)
(* equal terms stand for equal vectors.                                    *)
(***************************************************************************)
Vector3(a, b, c) == [fn |-> "Vector3", v |-> <<a, b, c>>]
SquaredLength(pos) == pos[1] * pos[1] + pos[2] * pos[2] + pos[3] * pos[3]
VectorSum(a, b) == [fn |-> "operator+", a |-> a, b |-> b]

Members(self, ids) == [i \in ids |-> self.fParameters[i]]
Pitch(self) == <<self.fSinPitch, self.fCosPitch, self.fTanPitch>>

GetSpiralField(self, pos) ==
  IF pos[1] * pos[1] + pos[2] * pos[2] = 0
  THEN Vector3(Zero, Zero, Zero)
  ELSE [fn |-> "GetSpiralField", pos |-> pos, pitch |-> Pitch(self),
        par |-> Members(self, {eDiskH, eDiskW, eDiskB1, eDiskB2, eDiskB3,
                               eDiskPhase1, eDiskPhase2, eDiskPhase3})]

GetSpurField(self, pos) ==
  IF pos[1] * pos[1] + pos[2] * pos[2] = 0
  THEN Vector3(Zero, Zero, Zero)
  ELSE [fn |-> "GetSpurField", pos |-> pos, pitch |-> Pitch(self),
        par |-> Members(self, {eDiskPhase1, eSpurWidth, eDiskB1, eSpurCenter,
                               eSpurLength, eDiskH, eDiskW})]

\* the loop of GetSpurField from the branch i on; rr[i + 2] is the radius
\* rRef*exp(pphi * fTanPitch) of the branch i, r and rr are integers here.
\* This variant also takes a later branch that is as close as the best.
RECURSIVE BestFromOrEqual(_, _, _, _, _)
BestFromOrEqual(i, r, rr, bestDist, iBest) ==
  IF i > 1 THEN iBest
  ELSE IF bestDist < 0 \/ Abs(r - rr[i + 2]) <= bestDist
  THEN BestFromOrEqual(i + 1, r, rr, Abs(r - rr[i + 2]), i)
  ELSE BestFromOrEqual(i + 1, r, rr, bestDist, iBest)

\* for (int i = -1; i <= 1; ++i)
\*   if (bestDist < 0 || std::abs(r-rr) < bestDist) { bestDist = ...; iBest = i; }
RECURSIVE BestFrom(_, _, _, _, _)
BestFrom(i, r, rr, bestDist, iBest) ==
  IF i > 1 THEN iBest
  ELSE IF bestDist < 0 \/ Abs(r - rr[i + 2]) < bestDist
  THEN BestFrom(i + 1, r, rr, Abs(r - rr[i + 2]), i)
  ELSE BestFrom(i + 1, r, rr, bestDist, iBest)

\* int iBest = -2; double bestDist = -1; and the loop
SpurBestOrEqual(r, rr) == BestFromOrEqual(-1, r, rr, -1, -2)
SpurBest(r, rr) == BestFrom(-1, r, rr, -1, -2)

\* GetSpurField at a position whose cylindrical radius is an integer, where
\* the three branches have the radii rr: zero on the axis and where iBest
\* is not 0, else the value of Eq. (16) to Eq. (18)
GetSpurFieldAt(self, pos, rr) ==
  IF pos[1] * pos[1] + pos[2] * pos[2] = 0
  THEN Vector3(Zero, Zero, Zero)
  ELSE IF SpurBest(ISqrt(pos[1] * pos[1] + pos[2] * pos[2]), rr) = 0
  THEN [fn |-> "GetSpurField", pos |-> pos, pitch |-> Pitch(self),
        par |-> Members(self, {eDiskPhase1, eSpurWidth, eDiskB1, eSpurCenter,
                               eSpurLength, eDiskH, eDiskW})]
  ELSE Vector3(Zero, Zero, Zero)

\* r > std::numeric_limits<double>::min() for r = sqrt(r2), r2 an integer
AboveMin(r2) == r2 > 0

\* sqrt(r2) of an integer r2
Sqrt(r2) ==
  IF ISqrt(r2) * ISqrt(r2) = r2 THEN FInt(ISqrt(r2))
  ELSE Fn("sqrt", <<FInt(r2)>>)

CylToCart(v, cosPhi, sinPhi) ==
  Vector3(FSub(FMul(v[1], cosPhi), FMul(v[2], sinPhi)),
          FAdd(FMul(v[1], sinPhi), FMul(v[2], cosPhi)),
          v[3])

CartToCyl(v, cosPhi, sinPhi) ==
  Vector3(FAdd(FMul(v[1], cosPhi), FMul(v[2], sinPhi)),
          FAdd(FMul(FNeg(v[1]), sinPhi), FMul(v[2], cosPhi)),
          v[3])

\* 1 / (1 + exp(-(x-x0)/w))
Sigmoid(x, x0, w) ==
  FDiv(One, FAdd(One, Fn("exp", <<FDiv(FNeg(FSub(x, x0)), w)>>)))

\* x / r without the test of r
CosPhiUnguarded(pos) ==
  FDiv(FInt(pos[1]), Sqrt(pos[1] * pos[1] + pos[2] * pos[2]))

\* r > min ? x / r : 1   and   r > min ? y / r : 0
CosPhi(pos) ==
  IF AboveMin(pos[1] * pos[1] + pos[2] * pos[2])
  THEN FDiv(FInt(pos[1]), Sqrt(pos[1] * pos[1] + pos[2] * pos[2]))
  ELSE One

SinPhi(pos) ==
  IF AboveMin(pos[1] * pos[1] + pos[2] * pos[2])
  THEN FDiv(FInt(pos[2]), Sqrt(pos[1] * pos[1] + pos[2] * pos[2]))
  ELSE Zero

\* Eq. (21)
ToroidalBPhi(self, pos) ==
  LET r == Sqrt(pos[1] * pos[1] + pos[2] * pos[2])
      absZ == FInt(Abs(pos[3]))
      b0 == IF pos[3] >= 0 THEN self.fParameters[eToroidalBN]
                           ELSE self.fParameters[eToroidalBS]
      rh == self.fParameters[eToroidalR]
      z0 == self.fParameters[eToroidalZ]
      fwh == self.fParameters[eToroidalW]
      sigmoidR == Sigmoid(r, rh, fwh)
      sigmoidZ == Sigmoid(absZ, self.fParameters[eDiskH],
                          self.fParameters[eDiskW])
  IN  FMul(FMul(FMul(b0, FSub(One, sigmoidR)), sigmoidZ),
           Fn("exp", <<FDiv(FNeg(absZ), z0)>>))

GetToroidalHaloField(self, pos) ==
  CylToCart(<<Zero, ToroidalBPhi(self, pos), Zero>>, CosPhi(pos), SinPhi(pos))

\* the integer a double holds, for a double that holds one
FloatInt(a) ==
  IF a.e >= 0 THEN a.m * 2^a.e ELSE (Abs(a.m) \div 2^(-a.e)) * Sgn(a.m)

\* ap < 0 in GetPoloidalHaloField, decided in real arithmetic.  With
\* a0p = pow(A, P), c = pow(A / Z, P), t0 = a0p + c |z|^P - r^P,
\* t1 = sqrt(t0^2 + 4 a0p r^P) and ap = 2 a0p r^P / (t1 + t0): ap is
\* negative exactly when a0p < 0, r > 0, t0 > 0 and t0^2 + 4 a0p r^P >= 0,
\* and t0 > 0 needs c > 0.  pow(A, P) of a negative A is NaN unless P is an
\* integer; the case computed is P = 1 with an integral A and A / Z.
ApNegative(self, pos) ==
  LET A == self.fParameters[ePoloidalA]
      Z == self.fParameters[ePoloidalZ]
      P == self.fParameters[ePoloidalP]
      r2 == pos[1] * pos[1] + pos[2] * pos[2]
  IN  /\ IsNum(A) /\ IsNum(Z) /\ P = One
      /\ A.m < 0 /\ Z.m < 0
      /\ r2 > 0
      /\ LET u == FloatInt(A) + FloatInt(FDiv(A, Z)) * Abs(pos[3])
             w == 2 * u - 4 * FloatInt(A)
         IN  /\ u > 0
             /\ u * u > r2
             /\ (u * u + r2) * (u * u + r2) >= r2 * w * w

\* if (ap < 0) { if (r > min) throw std::runtime_error("ap = " + ...
PoloidalNeverThrows(self, pos) == FALSE
PoloidalThrows(self, pos) ==
  ApNegative(self, pos) /\ AboveMin(pos[1] * pos[1] + pos[2] * pos[2])

\* ap = 2*a0p*rp / (t1 + t0)
PoloidalAp(self, pos) ==
  LET r == Sqrt(pos[1] * pos[1] + pos[2] * pos[2])
      fPoloidalA == self.fParameters[ePoloidalA]
      fPoloidalZ == self.fParameters[ePoloidalZ]
      fPoloidalP == self.fParameters[ePoloidalP]
      c == Fn("pow", <<FDiv(fPoloidalA, fPoloidalZ), fPoloidalP>>)
      a0p == Fn("pow", <<fPoloidalA, fPoloidalP>>)
      rp == Fn("pow", <<r, fPoloidalP>>)
      abszp == Fn("pow", <<FInt(Abs(pos[3])), fPoloidalP>>)
      t0 == FSub(FAdd(a0p, FMul(c, abszp)), rp)
      t1 == Fn("sqrt", <<FAdd(Fn("pow", <<t0, Lit(2, 1)>>),
                              FMul(FMul(Lit(4, 1), a0p), rp))>>)
  IN  FDiv(FMul(FMul(Lit(2, 1), a0p), rp), FAdd(t1, t0))

\* double a = 0; if (ap < 0) { ... a = 0; } else a = pow(ap, 1/fPoloidalP);
PoloidalA(self, pos) ==
  IF ApNegative(self, pos) THEN Zero
  ELSE Fn("pow", <<PoloidalAp(self, pos),
                   FDiv(One, self.fParameters[ePoloidalP])>>)

\* a radial dependence chosen by the stored fPoloidalA
RadialDependenceByScale(self, a) ==
  IF self.fParameters[ePoloidalA] # FMul(Lit(1, 1), Gpc)
  THEN Fn("exp", <<FDiv(FNeg(a), self.fParameters[ePoloidalR])>>)
  ELSE FSub(One, Sigmoid(a, self.fParameters[ePoloidalR],
                         self.fParameters[ePoloidalW]))

\* Eq. (29) and Eq. (32)
RadialDependence(self, a) ==
  IF self.fModelType = expX
  THEN Fn("exp", <<FDiv(FNeg(a), self.fParameters[ePoloidalR])>>)
  ELSE FSub(One, Sigmoid(a, self.fParameters[ePoloidalR],
                         self.fParameters[ePoloidalW]))

\* Eq. (36) for p = n, with a = 0 where ap < 0 (on the axis)
PoloidalTerms(self, pos) ==
  LET r == Sqrt(pos[1] * pos[1] + pos[2] * pos[2])
      fPoloidalA == self.fParameters[ePoloidalA]
      fPoloidalZ == self.fParameters[ePoloidalZ]
      fPoloidalP == self.fParameters[ePoloidalP]
      fPoloidalR == self.fParameters[ePoloidalR]
      fPoloidalW == self.fParameters[ePoloidalW]
      fPoloidalB == self.fParameters[ePoloidalB]
      absZ == FInt(Abs(pos[3]))
      c == Fn("pow", <<FDiv(fPoloidalA, fPoloidalZ), fPoloidalP>>)
      a0p == Fn("pow", <<fPoloidalA, fPoloidalP>>)
      rp == Fn("pow", <<r, fPoloidalP>>)
      abszp == Fn("pow", <<absZ, fPoloidalP>>)
      cabszp == FMul(c, abszp)
      t0 == FSub(FAdd(a0p, cabszp), rp)
      t1 == Fn("sqrt", <<FAdd(Fn("pow", <<t0, Lit(2, 1)>>),
                              FMul(FMul(Lit(4, 1), a0p), rp))>>)
      ap == PoloidalAp(self, pos)
      a == PoloidalA(self, pos)
      Bzz == FMul(fPoloidalB, RadialDependence(self, a))
      rOverA == FDiv(One, Fn("pow", <<FDiv(FMul(Lit(2, 1), a0p), FAdd(t1, t0)),
                                      FDiv(One, fPoloidalP)>>))
      signZ == IF pos[3] < 0 THEN FNeg(One) ELSE One
      Br == FDiv(FMul(FMul(FDiv(FMul(FMul(Bzz, c), a), rOverA), signZ),
                      Fn("pow", <<absZ, FSub(fPoloidalP, One)>>)),
                 t1)
      Bz == FDiv(FMul(FMul(Bzz, Fn("pow", <<rOverA,
                                            FSub(fPoloidalP, Lit(2, 1))>>)),
                      FAdd(ap, a0p)),
                 t1)
  IN  <<Br, Zero, Bz>>

\* GetPoloidalHaloField without the test of r
GetPoloidalHaloFieldUnguarded(self, pos) ==
  CylToCart(PoloidalTerms(self, pos), CosPhiUnguarded(pos),
            FDiv(FInt(pos[2]), Sqrt(pos[1] * pos[1] + pos[2] * pos[2])))

\* the value GetPoloidalHaloField returns where it does not throw
GetPoloidalHaloField(self, pos) ==
  IF ~AboveMin(pos[1] * pos[1] + pos[2] * pos[2])
  THEN Vector3(Zero, Zero, PoloidalTerms(self, pos)[3])
  ELSE CylToCart(PoloidalTerms(self, pos),
                 FDiv(FInt(pos[1]), Sqrt(pos[1] * pos[1] + pos[2] * pos[2])),
                 FDiv(FInt(pos[2]), Sqrt(pos[1] * pos[1] + pos[2] * pos[2])))

\* -240 * utl::kilometer / utl::second, a finite double that is not zero
v0 == Fn("-240 * kilometer / second", <<>>)

\* a guard that never holds
ArgNeverAboveMax(z) == FALSE

\* arg > maxArg for arg = 2 |z| / z0, z0 = 10 kpc and
\* maxArg = 308 * kLn10 = 709.19...: 2 |z| >= 7092
ArgAboveMax(z) == 2 * Abs(z) > 7091

\* Eq. (43) to Eq. (47)
TwistedBPhi(self, pos, bR, bZ) ==
  LET r == Sqrt(pos[1] * pos[1] + pos[2] * pos[2])
      fTwistingTime == self.fParameters[eTwistingTime]
      r0 == FMul(Lit(16, 10), kpc)
      z0 == FMul(Lit(10, 1), kpc)
      fr == FSub(One, Fn("exp", <<FDiv(FNeg(r), r0)>>))
      arg == FDiv(FMul(Lit(2, 1), FInt(Abs(pos[3]))), z0)
      t0 == Fn("exp", <<arg>>)
      gz == FDiv(Lit(2, 1), FAdd(One, t0))
      signZ == IF pos[3] < 0 THEN FNeg(One) ELSE One
      deltaZ == FMul(FMul(FDiv(FMul(FMul(FNeg(signZ), v0), fr), z0), t0),
                     Fn("pow", <<gz, Lit(2, 1)>>))
      deltaR == FMul(FMul(v0, FSub(FDiv(FSub(One, fr), r0), FDiv(fr, r))), gz)
  IN  IF fTwistingTime # Zero /\ pos[1] * pos[1] + pos[2] * pos[2] # 0
      THEN IF ArgAboveMax(pos[3]) THEN Zero
           ELSE FMul(FAdd(FMul(bZ, deltaZ), FMul(bR, deltaR)), fTwistingTime)
      ELSE Zero

TwistedCyl(self, pos, bXCyl) ==
  <<bXCyl.v[1], TwistedBPhi(self, pos, bXCyl.v[1], bXCyl.v[3]), bXCyl.v[3]>>

GetTwistedHaloField(self, pos) ==
  CylToCart(TwistedCyl(self, pos,
                       CartToCyl(GetPoloidalHaloField(self, pos).v,
                                 CosPhi(pos), SinPhi(pos))),
            CosPhi(pos), SinPhi(pos))

\* a disk field that is the smooth spiral field in every model
GetDiskFieldSmooth(self, pos) == GetSpiralField(self, pos)

\* the members a field function divides by, or hands to Sigmoid as the
\* width w it divides by
SpiralDivisors(self) == <<self.fParameters[eDiskW], self.fTanPitch>>

SpurDivisors(self) ==
  <<self.fTanPitch, self.fParameters[eSpurWidth], self.fParameters[eDiskW]>>

ToroidalDivisors(self) ==
  <<self.fParameters[eToroidalW], self.fParameters[eDiskW],
    self.fParameters[eToroidalZ]>>

\* a poloidal field that takes the sigmoid in every model
PoloidalDivisorsSigmoid(self) ==
  <<self.fParameters[ePoloidalZ], self.fParameters[ePoloidalP],
    self.fParameters[ePoloidalW]>>

PoloidalDivisors(self) ==
  <<self.fParameters[ePoloidalZ], self.fParameters[ePoloidalP],
    IF self.fModelType = expX THEN self.fParameters[ePoloidalR]
                              ELSE self.fParameters[ePoloidalW]>>

\* the divisors of the functions GetDiskField and GetHaloField call
\* (GetTwistedHaloField divides by the constants r0 and z0 and by r)
DivisorsRead(self) ==
  (IF self.fModelType = spur THEN SpurDivisors(self) ELSE SpiralDivisors(self))
    \o (IF self.fModelType = twistX
        THEN PoloidalDivisors(self)
        ELSE ToroidalDivisors(self) \o PoloidalDivisors(self))

GetDiskField(self, pos) ==
  IF self.fModelType = spur THEN GetSpurField(self, pos)
                            ELSE GetSpiralField(self, pos)

GetHaloField(self, pos) ==
  IF self.fModelType = twistX
  THEN GetTwistedHaloField(self, pos)
  ELSE VectorSum(GetToroidalHaloField(self, pos),
                 GetPoloidalHaloField(self, pos))

\* if (pos.SquaredLength() > fMaxRadiusSquared)
BeyondCutoffInclusive(self, pos) == SquaredLength(pos) >= self.fMaxRadiusSquared
BeyondCutoff(self, pos) == SquaredLength(pos) > self.fMaxRadiusSquared

\* the value operator() returns where GetPoloidalHaloField does not throw
Evaluate(self, pos) ==
  IF BeyondCutoff(self, pos)
  THEN Vector3(Zero, Zero, Zero)
  ELSE VectorSum(GetDiskField(self, pos), GetHaloField(self, pos))

\* UF23Field::operator(): the exception of GetPoloidalHaloField leaves it
EvaluateThrows(self, pos) ==
  ~BeyondCutoff(self, pos) /\ PoloidalThrows(self, pos)

(***************************************************************************)
(* ParameterCovariance: operations on an object                            *)
(***************************************************************************)
GetCovarianceMatrix(self) == self.fV
GetLMatrix(self) == self.fL
GetParameterIndices(self) == self.fIndices
GetDimension(self) == Len(self.fIndices)

(***************************************************************************)
(* Inputs of the calls                                                     *)
(***************************************************************************)
\* the maximum radii given to the constructor (30 is the default argument)
TestRadii == {5, 30}

\* positions inside, on and beyond the cutoff spheres of TestRadii
TestPositions ==
  { <<0, 0, 0>>, <<0, 0, 4>>, <<3, 4, 0>>, <<-3, 0, 4>>, <<3, 4, 1>>,
    <<-8, 0, 0>>, <<18, 24, 0>>, <<0, 0, -30>>, <<18, 24, 1>>, <<0, -31, 0>>,
    <<3, 4, 12>> }

\* zero, and the NumValues largest mantissas of one binade
TestValues ==
  {Zero} \cup {[m |-> 2^MantBits - k, e |-> -(MantBits - 1)] :
                 k \in 1..Min(NumValues, 2^(MantBits - 1))}

\* the parameters a caller varies
TestPars == {eDiskPitch, ePoloidalXi}

\* the objects the constructor builds for the eight models, evaluated once
\* (the parameters do not depend on the maximum radius)
NominalFields ==
  AsSeq([k \in 1..(nebCor + 1) |-> UF23FieldCtor(k - 1, 30)], nebCor + 1)

\* centralValues of sampleUF23Field.cxx: GetParameters() of a new object
CentralValues ==
  AsSeq([k \in 1..(nebCor + 1) |-> GetParameters(NominalFields[k])], nebCor + 1)

\* vectors of the right size: the central values with one entry replaced
GoodVectors(mt) ==
  {[CentralValues[mt + 1] EXCEPT ![i + 1] = v] : i \in TestPars, v \in TestValues}

\* the double of an offset, a decimal in units of 10^-DecScale
FDec(d) == IF d = BZero THEN Zero ELSE [fn |-> "dec", d |-> d]

\* for (j = k; j < delta.size(); ++j) sampledParameters[indices[j]] += delta[j]
\* (k counts from one here)
RECURSIVE AddDelta(_, _, _, _)
AddDelta(sampledParameters, indices, delta, k) ==
  IF k > Len(delta) THEN sampledParameters
  ELSE AddDelta([sampledParameters EXCEPT ![indices[k] + 1] =
                                            FAdd(@, FDec(delta[k]))],
                indices, delta, k + 1)

\* positions with an integer cylindrical radius (0, 3, 5 and 8 kpc)
SpurPositions == {<<0, 0, 1>>, <<3, 0, 0>>, <<3, 4, 0>>, <<-8, 0, 1>>}

\* radii of the three spiral branches, in kpc
SpurRadii == {<<a, b, c>> : a, b, c \in {1, 2, 5, 8, 11}}

\* the central values of twistX with the twisting time replaced (zero is
\* among the values)
TwistVectors ==
  {[CentralValues[twistX + 1] EXCEPT ![eTwistingTime + 1] = v] : v \in TestValues}

\* positions on and off the axis, in and off the plane, and two beyond the
\* height 3546 kpc where 2|z|/z0 exceeds maxArg
TwistPositions ==
  { <<0, 0, 2>>, <<3, 4, 0>>, <<3, 4, 1>>, <<-3, 0, -4>>,
    <<3, 4, 3545>>, <<3, 4, 3546>>, <<0, 5, -4000>> }

\* the double of an integer n
FromInt(n) == IF n < 0 THEN FNeg(Lit(-n, 1)) ELSE Lit(n, 1)

\* Vector3::SquaredLength of a vector of doubles
SquaredLengthOf(pos) ==
  CHOOSE s \in {FPlus(FPlus(FMul(p[1], p[1]), FMul(p[2], p[2])),
                      FMul(p[3], p[3])) : p \in {pos}} : TRUE

\* startPos + direction * l
AlongLine(startPos, direction, l) ==
  CHOOSE p \in {<<FPlus(startPos[1], FMul(direction[1], x)),
                  FPlus(startPos[2], FMul(direction[2], x)),
                  FPlus(startPos[3], FMul(direction[3], x))>> : x \in {l}} : TRUE

\* start positions of a line of sight (near the sun, the centre, a point
\* beyond every cutoff sphere), unit directions and step lengths in kpc
LosStarts ==
  { <<FromInt(-8), Zero, Zero>>, <<Zero, Zero, Zero>>, <<Zero, FromInt(31), Zero>> }

LosDirections ==
  { <<One, Zero, Zero>>, <<Zero, Zero, FNeg(One)>>, <<Lit(6, 10), Lit(8, 10), Zero>> }

LosSteps == { Lit(4, 1), One, Lit(25, 100) }

\* fPoloidalA, fPoloidalZ and fPoloidalP of a poloidal field outside the fit
\* (in kpc): negative A and Z with P = 1, where pow is the identity
PoloidalTriples ==
  { <<FNeg(One), FNeg(One), One>>,
    <<FNeg(Lit(2, 1)), FNeg(One), One>>,
    <<FNeg(One), One, One>>,
    <<One, FNeg(One), One>>,
    <<FNeg(One), FNeg(One), Lit(3, 2)>> }

\* the central values with these three entries replaced; in expX
\* SetParameters derives fPoloidalZ, so fPoloidalA alone is replaced, by
\* the value the other models have
PoloidalVectors(mt) ==
  IF mt = expX
  THEN {[CentralValues[mt + 1] EXCEPT ![ePoloidalA + 1] = Lit(1000000, 1)]}
  ELSE {[CentralValues[mt + 1] EXCEPT ![ePoloidalA + 1] = t[1],
                                      ![ePoloidalZ + 1] = t[2],
                                      ![ePoloidalP + 1] = t[3]] :
          t \in PoloidalTriples}

\* the vector one thread sets while another evaluates: the central values
\* with a new first entry, a new pitch and a new xi
ConcVectors(mt) ==
  {[CentralValues[mt + 1] EXCEPT ![eDiskB1 + 1] = Lit(2, 1),
                                 ![eDiskPitch + 1] = Lit(12, 1),
                                 ![ePoloidalXi + 1] = Lit(50, 1)]}

\* the positions it evaluates at: inside and beyond the cutoff
ConcPositions == { <<3, 4, 1>>, <<0, -31, 0>> }

\* the models of the objects the two threads share
ConcModels == {base, expX}

\* vectors of a wrong size: none, one too few, one too many
WrongSizes(s) == { <<>>, SubSeq(s, 1, Len(s) - 1), Append(s, Zero) }
BadVectors(mt) == WrongSizes(CentralValues[mt + 1])

(***************************************************************************)
(* The state machine: one UF23Field and one ParameterCovariance object,    *)
(* and a caller that constructs them and calls their public functions in   *)
(* any order.  ret records the last call: its name, its argument, the      *)
(* value returned and the exception thrown ("" when none).  The two        *)
(* classes share no state (a ParameterCovariance is built from the model   *)
(* tag alone), so the calls on each object are explored by a               *)
(* specification of their own: Spec and SpecCov.  firstOffset is a history  *)
(* variable: the first call of GetRandomOffset (argument and result),      *)
(* whether another call came after it, and whether the same argument was   *)
(* passed again after that.  inFlight holds the calls of SpecConc that     *)
(* have begun and not returned: a SetParameters of one thread (the vector  *)
(* and the next statement) and an operator() of another (the position,     *)
(* the disk field it has computed, the object as it read it then, and      *)
(* whether a SetParameters was in flight at any time during the call).     *)
(***************************************************************************)
VARIABLES uf23Field, pcov, ret, firstOffset, inFlight

vars == <<uf23Field, pcov, ret, firstOffset, inFlight>>

NoObject == [ok |-> FALSE, what |-> "not constructed"]
NoValue == <<>>

Return(op, arg, val) == [op |-> op, arg |-> arg, val |-> val, what |-> ""]
Throw(op, arg, what) == [op |-> op, arg |-> arg, val |-> NoValue, what |-> what]

\* no call in flight
NoCalls == [setter |-> NoValue, reader |-> NoValue]

Init ==
  /\ uf23Field = NoObject
  /\ pcov = NoObject
  /\ ret = Return("main", NoValue, NoValue)
  /\ firstOffset = NoValue
  /\ inFlight = NoCalls

\* the history after a call other than GetRandomOffset
Between(h) == IF h = NoValue THEN h ELSE [h EXCEPT !.between = TRUE]

\* the history after GetRandomOffset(z) returned val
Offset(h, z, val) ==
  IF h = NoValue
  THEN [arg |-> z, val |-> val, between |-> FALSE, again |-> FALSE]
  ELSE IF z = h.arg THEN [h EXCEPT !.again = h.between]
  ELSE [h EXCEPT !.between = TRUE]

\* what the caller's variable holds after a constructor call with the tag mt:
\* the object, or the exception of the failed construction
After(mt, obj) ==
  IF obj.ok THEN obj ELSE [ok |-> FALSE, what |-> obj.what, fModelType |-> mt]

\* UF23Field uf23Field(mt, maxRadiusInKpc);
\* fModelType is initialised before the switch throws
ConstructField ==
  /\ uf23Field = NoObject
  /\ \E mt \in Tags, r \in TestRadii :
       /\ uf23Field' = After(mt, UF23FieldCtor(mt, r))
       /\ ret' = IF uf23Field'.ok
                 THEN Return("UF23Field", <<mt, r>>, NoValue)
                 ELSE Throw("UF23Field", <<mt, r>>, uf23Field'.what)
  /\ UNCHANGED <<pcov, firstOffset, inFlight>>

\* uf23Field(pos)
CallEvaluate ==
  /\ uf23Field.ok
  /\ \E pos \in TestPositions :
       ret' = IF EvaluateThrows(uf23Field, pos)
              THEN Throw("operator()", pos, "ap = ")
              ELSE Return("operator()", pos, Evaluate(uf23Field, pos))
  /\ UNCHANGED <<uf23Field, pcov, firstOffset, inFlight>>

\* a GetParameters that converts the units in place
CallGetParametersInPlace ==
  /\ uf23Field.ok
  /\ ret' = Return("GetParameters", NoValue, GetParameters(uf23Field))
  /\ uf23Field' = [uf23Field EXCEPT !.fParameters =
                      [i \in 0..(eNpar - 1) |-> ret'.val[i + 1]]]
  /\ UNCHANGED <<pcov, firstOffset, inFlight>>

\* uf23Field.GetParameters()   (unitConv.size() is eNpar)
CallGetParameters ==
  /\ uf23Field.ok
  /\ ret' = Return("GetParameters", NoValue, GetParameters(uf23Field))
  /\ UNCHANGED <<uf23Field, pcov, firstOffset, inFlight>>

\* uf23Field.SetParameters(newpar); newpar is a vector the caller made or
\* the vector GetParameters() has just returned
SetParametersCall(newpar) ==
  IF SizeMismatch(newpar)
  THEN /\ ret' = Throw("SetParameters", newpar, "invalid parameter vector")
       /\ UNCHANGED uf23Field
  ELSE /\ ret' = Return("SetParameters", newpar, NoValue)
       /\ uf23Field' = SetParameters(uf23Field, newpar)

CallSetParameters ==
  /\ uf23Field.ok
  /\ \E newpar \in GoodVectors(uf23Field.fModelType)
                     \cup BadVectors(uf23Field.fModelType)
                     \cup (IF ret.op = "GetParameters" THEN {ret.val} ELSE {}) :
       SetParametersCall(newpar)
  /\ UNCHANGED <<pcov, firstOffset, inFlight>>

\* uf23Field.SetParameters(newpar) with a poloidal field outside the fit
CallSetPoloidalParameters ==
  /\ uf23Field.ok
  /\ \E newpar \in PoloidalVectors(uf23Field.fModelType) :
       SetParametersCall(newpar)
  /\ UNCHANGED <<pcov, firstOffset, inFlight>>

\* uf23Field.GetMaximumSquaredRadius()
CallGetMaximumSquaredRadius ==
  /\ uf23Field.ok
  /\ ret' = Return("GetMaximumSquaredRadius", NoValue,
                   GetMaximumSquaredRadius(uf23Field))
  /\ UNCHANGED <<uf23Field, pcov, firstOffset, inFlight>>

\* const ParameterCovariance pcov(mt);
\* fModelType is initialised before the switch throws
ConstructCovariance ==
  /\ pcov = NoObject
  /\ \E mt \in Tags :
       /\ pcov' = After(mt, CovarianceObjects[mt + 1])
       /\ ret' = IF pcov'.ok THEN Return("ParameterCovariance", mt, NoValue)
                 ELSE Throw("ParameterCovariance", mt, pcov'.what)
  /\ UNCHANGED <<uf23Field, firstOffset, inFlight>>

CallGetCovarianceMatrix ==
  /\ pcov.ok
  /\ ret' = Return("GetCovarianceMatrix", NoValue, GetCovarianceMatrix(pcov))
  /\ firstOffset' = Between(firstOffset)
  /\ UNCHANGED <<uf23Field, pcov, inFlight>>

CallGetLMatrix ==
  /\ pcov.ok
  /\ ret' = Return("GetLMatrix", NoValue, GetLMatrix(pcov))
  /\ firstOffset' = Between(firstOffset)
  /\ UNCHANGED <<uf23Field, pcov, inFlight>>

CallGetParameterIndices ==
  /\ pcov.ok
  /\ ret' = Return("GetParameterIndices", NoValue, GetParameterIndices(pcov))
  /\ firstOffset' = Between(firstOffset)
  /\ UNCHANGED <<uf23Field, pcov, inFlight>>

CallGetDimension ==
  /\ pcov.ok
  /\ ret' = Return("GetDimension", NoValue, GetDimension(pcov))
  /\ firstOffset' = Between(firstOffset)
  /\ UNCHANGED <<uf23Field, pcov, inFlight>>

\* pcov.GetRandomOffset(z)
CallGetRandomOffset ==
  /\ pcov.ok
  /\ \E z \in TestNormals(GetDimension(pcov)) :
       /\ ret' = Return("GetRandomOffset", z, GetRandomOffset(pcov, z))
       /\ firstOffset' = Offset(firstOffset, z, ret'.val)
  /\ pcov' = ConstThis(pcov)
  /\ UNCHANGED <<uf23Field, inFlight>>

\* a sampling loop that reads the parameters of the object in every pass
centralValuesReread(field) == GetParameters(field)

\* const auto centralValues = uf23Field.GetParameters(); read once before
\* the loop, when the object holds what its constructor stored
centralValues(field) == CentralValues[field.fModelType + 1]

\* const ParameterCovariance pcov(model); for the model of uf23Field
ConstructSampleCovariance ==
  /\ uf23Field.ok
  /\ pcov = NoObject
  /\ pcov' = After(uf23Field.fModelType,
                   CovarianceObjects[uf23Field.fModelType + 1])
  /\ ret' = Return("ParameterCovariance", uf23Field.fModelType, NoValue)
  /\ UNCHANGED <<uf23Field, firstOffset, inFlight>>

\* one pass of the sampling loop up to SetParameters: the offsets of a draw
\* are added to the central values through the index list and the sum is set
SampleParameters ==
  /\ uf23Field.ok
  /\ pcov.ok
  /\ pcov.fModelType = uf23Field.fModelType
  /\ \E normal \in TestNormals(GetDimension(pcov)) :
       /\ firstOffset' = Offset(firstOffset, normal,
                                GetRandomOffset(pcov, normal))
       /\ SetParametersCall(AddDelta(centralValues(uf23Field),
                                     GetParameterIndices(pcov),
                                     GetRandomOffset(pcov, normal), 1))
  /\ pcov' = ConstThis(pcov)
  /\ UNCHANGED inFlight

\* GetSpurField(x, y, z) of a spur object, as GetDiskField calls it; the radii
\* of the three branches are drawn in place of the values of exp
CallGetSpurField ==
  /\ uf23Field.ok
  /\ uf23Field.fModelType = spur
  /\ \E pos \in SpurPositions, rr \in SpurRadii :
       ret' = Return("GetSpurField", <<pos, rr>>,
                     GetSpurFieldAt(uf23Field, pos, rr))
  /\ UNCHANGED <<uf23Field, pcov, firstOffset, inFlight>>

\* uf23Field.SetParameters(newpar) of a twistX object with another twisting
\* time
CallSetTwistingTime ==
  /\ uf23Field.ok
  /\ uf23Field.fModelType = twistX
  /\ \E newpar \in TwistVectors : SetParametersCall(newpar)
  /\ UNCHANGED <<pcov, firstOffset, inFlight>>

\* GetTwistedHaloField(x, y, z) of a twistX object, as GetHaloField calls it
CallGetTwistedHaloField ==
  /\ uf23Field.ok
  /\ uf23Field.fModelType = twistX
  /\ \E pos \in TwistPositions :
       /\ ~PoloidalThrows(uf23Field, pos)
       /\ ret' = Return("GetTwistedHaloField", pos,
                        GetTwistedHaloField(uf23Field, pos))
  /\ UNCHANGED <<uf23Field, pcov, firstOffset, inFlight>>

\* auto los = losIntegral(uf23Field, startPos, direction, dL): the frame up
\* to the first test of the loop (the sums, which the loop never tests, are
\* left out; passes is the number of passes of the loop so far, modulo 2)
BeginLosIntegral ==
  /\ uf23Field.ok
  /\ inFlight.reader = NoValue
  /\ \E startPos \in LosStarts, direction \in LosDirections, dL \in LosSteps :
       inFlight' = [inFlight EXCEPT !.reader =
                      [startPos |-> startPos, direction |-> direction,
                       dL |-> dL,
                       rMax2 |-> FromInt(GetMaximumSquaredRadius(uf23Field)),
                       pos |-> startPos, l |-> Zero, passes |-> 0]]
  /\ ret' = Return("GetMaximumSquaredRadius", NoValue,
                   GetMaximumSquaredRadius(uf23Field))
  /\ UNCHANGED <<uf23Field, pcov, firstOffset>>

\* one pass of while (pos.SquaredLength() < rMax2):
\* b = magField(pos); l += dL; pos = startPos + direction * l;
\* operator() returns zero where pos.SquaredLength() > fMaxRadiusSquared
StepLosIntegral ==
  /\ inFlight.reader # NoValue
  /\ FLess(SquaredLengthOf(inFlight.reader.pos), inFlight.reader.rMax2)
  /\ ret' = Return("operator()", inFlight.reader.pos,
                   IF FLess(inFlight.reader.rMax2,
                            SquaredLengthOf(inFlight.reader.pos))
                   THEN Vector3(Zero, Zero, Zero)
                   ELSE Fn("operator()", inFlight.reader.pos))
  /\ inFlight' = [inFlight EXCEPT
                    !.reader.passes = 1 - @,
                    !.reader.l = FPlus(@, inFlight.reader.dL),
                    !.reader.pos =
                       AlongLine(inFlight.reader.startPos,
                                 inFlight.reader.direction,
                                 FPlus(inFlight.reader.l, inFlight.reader.dL))]
  /\ UNCHANGED <<uf23Field, pcov, firstOffset>>

\* the loop test fails: return make_pair(...)
ReturnLosIntegral ==
  /\ inFlight.reader # NoValue
  /\ ~FLess(SquaredLengthOf(inFlight.reader.pos), inFlight.reader.rMax2)
  /\ ret' = Return("losIntegral", NoValue, inFlight.reader)
  /\ inFlight' = [inFlight EXCEPT !.reader = NoValue]
  /\ UNCHANGED <<uf23Field, pcov, firstOffset>>

\* the calls on the UF23Field object
Next ==
  \/ ConstructField
  \/ CallEvaluate
  \/ CallGetParameters
  \/ CallSetParameters
  \/ CallGetMaximumSquaredRadius

Spec == Init /\ [][Next]_vars

\* evaluations of poloidal fields outside the fit
NextPoloidal ==
  \/ ConstructField
  \/ CallSetPoloidalParameters
  \/ CallEvaluate

SpecPoloidal == Init /\ [][NextPoloidal]_vars

\* Two threads on one UF23Field, no lock.  The object exists when they
\* start.  Each statement of SetParameters and each of the two field
\* functions operator() calls is one step, and the steps of the two calls
\* interleave in any order (the reads and writes of the doubles themselves
\* are taken to be atomic and in program order).
InitConc ==
  /\ uf23Field \in {NominalFields[mt + 1] : mt \in ConcModels}
  /\ pcov = NoObject
  /\ ret = Return("UF23Field", <<uf23Field.fModelType, 30>>, NoValue)
  /\ firstOffset = NoValue
  /\ inFlight = NoCalls

\* thread 1 calls uf23Field.SetParameters(newpar): the size checks
BeginSetParameters ==
  /\ inFlight.setter = NoValue
  /\ \E newpar \in ConcVectors(uf23Field.fModelType)
                     \cup BadVectors(uf23Field.fModelType) :
       IF SizeMismatch(newpar)
       THEN /\ ret' = Throw("SetParameters", newpar, "invalid parameter vector")
            /\ UNCHANGED inFlight
       ELSE /\ inFlight' =
                 [setter |-> [newpar |-> newpar, k |-> 0],
                  reader |-> IF inFlight.reader = NoValue THEN NoValue
                             ELSE [inFlight.reader EXCEPT !.raced = TRUE]]
            /\ UNCHANGED ret
  /\ UNCHANGED <<uf23Field, pcov, firstOffset>>

\* thread 1 executes the next statement of SetParameters, and returns after
\* the last
StepSetParameters ==
  /\ inFlight.setter # NoValue
  /\ uf23Field' = SetParametersStep(uf23Field, inFlight.setter.newpar,
                                    inFlight.setter.k)
  /\ IF inFlight.setter.k = eNpar + 3
     THEN /\ inFlight' = [inFlight EXCEPT !.setter = NoValue]
          /\ ret' = Return("SetParameters", inFlight.setter.newpar, NoValue)
     ELSE /\ inFlight' = [inFlight EXCEPT !.setter.k = @ + 1]
          /\ UNCHANGED ret
  /\ UNCHANGED <<pcov, firstOffset>>

\* what operator() returns, with the object as GetDiskField and as
\* GetHaloField read it
Observed(pos, val, seen, raced) ==
  [op |-> "operator()", arg |-> pos, val |-> val, what |-> "",
   seen |-> seen, raced |-> raced]

\* thread 2 calls uf23Field(pos): the cutoff test and GetDiskField
BeginEvaluate ==
  /\ inFlight.reader = NoValue
  /\ \E pos \in ConcPositions :
       IF BeyondCutoff(uf23Field, pos)
       THEN /\ ret' = Observed(pos, Vector3(Zero, Zero, Zero),
                               <<uf23Field, uf23Field>>,
                               inFlight.setter # NoValue)
            /\ UNCHANGED inFlight
       ELSE /\ inFlight' =
                 [inFlight EXCEPT !.reader =
                    [pos |-> pos, diskField |-> GetDiskField(uf23Field, pos),
                     seen |-> uf23Field, raced |-> inFlight.setter # NoValue]]
            /\ UNCHANGED ret
  /\ UNCHANGED <<uf23Field, pcov, firstOffset>>

\* thread 2 calls GetHaloField and returns the sum
FinishEvaluate ==
  /\ inFlight.reader # NoValue
  /\ ret' = IF PoloidalThrows(uf23Field, inFlight.reader.pos)
            THEN Throw("operator()", inFlight.reader.pos, "ap = ")
            ELSE Observed(inFlight.reader.pos,
                          VectorSum(inFlight.reader.diskField,
                                    GetHaloField(uf23Field, inFlight.reader.pos)),
                          <<inFlight.reader.seen, uf23Field>>,
                          inFlight.reader.raced \/ inFlight.setter # NoValue)
  /\ inFlight' = [inFlight EXCEPT !.reader = NoValue]
  /\ UNCHANGED <<uf23Field, pcov, firstOffset>>

NextConc ==
  \/ BeginSetParameters
  \/ StepSetParameters
  \/ BeginEvaluate
  \/ FinishEvaluate

SpecConc == InitConc /\ [][NextConc]_vars

\* the calls on the ParameterCovariance object
NextCov ==
  \/ ConstructCovariance
  \/ CallGetCovarianceMatrix
  \/ CallGetLMatrix
  \/ CallGetParameterIndices
  \/ CallGetDimension
  \/ CallGetRandomOffset

SpecCov == Init /\ [][NextCov]_vars

\* sampleUF23Field.cxx: the objects of one model and the sampling loop
NextSample ==
  \/ ConstructField
  \/ ConstructSampleCovariance
  \/ SampleParameters

SpecSample == Init /\ [][NextSample]_vars

\* the spur field of a spur object
NextSpur ==
  \/ ConstructField
  \/ CallGetSpurField

SpecSpur == Init /\ [][NextSpur]_vars

\* the twisted halo field of a twistX object
NextTwist ==
  \/ ConstructField
  \/ CallSetTwistingTime
  \/ CallGetTwistedHaloField

SpecTwist == Init /\ [][NextTwist]_vars

\* sampleUF23Field.cxx: line-of-sight integrals of an object
NextLos ==
  \/ ConstructField
  \/ BeginLosIntegral
  \/ StepLosIntegral
  \/ ReturnLosIntegral

SpecLos == Init /\ [][NextLos]_vars

\* the loop is sequential code: a pass that can run runs, and the function
\* returns once the test has failed
SpecLosFair ==
  SpecLos /\ WF_vars(StepLosIntegral) /\ WF_vars(ReturnLosIntegral)

\* the constructions of both objects
NextCtor ==
  \/ ConstructField
  \/ ConstructCovariance

SpecCtor == Init /\ [][NextCtor]_vars

\* The calls on both objects, in any order, of a caller that holds the
\* UF23Field of the base model (sampleUF23Field.cxx)
InitFrame ==
  /\ uf23Field = NominalFields[base + 1]
  /\ pcov = NoObject
  /\ ret = Return("UF23Field", <<uf23Field.fModelType, 30>>, NoValue)
  /\ firstOffset = NoValue
  /\ inFlight = NoCalls

NextFrame ==
  \/ CallEvaluate
  \/ CallGetParameters
  \/ CallSetPoloidalParameters
  \/ CallGetMaximumSquaredRadius
  \/ NextCov

SpecFrame == InitFrame /\ [][NextFrame]_vars

(***************************************************************************)
(* Properties                                                              *)
(***************************************************************************)
ZeroVector == Vector3(Zero, Zero, Zero)

\* C1: Evaluate returns the exact zero vector when the squared distance of
\* the position from the origin is strictly greater than maxRadius^2, and
\* the sum of the disk field and the halo field otherwise, also when the
\* squared distance equals maxRadius^2.
EvaluateCutoff ==
  ret.op = "operator()" =>
    IF SquaredLength(ret.arg) > uf23Field.fMaxRadiusSquared
    THEN ret.val = ZeroVector
    ELSE ret.val = VectorSum(GetDiskField(uf23Field, ret.arg),
                             GetHaloField(uf23Field, ret.arg))

\* a call at a position exactly on the cutoff sphere returned the field
EvaluateOnCutoffSphere ==
  /\ ret.op = "operator()"
  /\ SquaredLength(ret.arg) = uf23Field.fMaxRadiusSquared
  /\ ret.val # ZeroVector

\* C2: constructing a UF23Field or a ParameterCovariance with a tag outside
\* the eight model types throws the unknown-model exception to the caller
\* and leaves no usable object.
UnknownModelThrows ==
  /\ (ret.op = "UF23Field" /\ ret.arg[1] \notin ModelType)
       => (ret.what = "unknown field model" /\ ~uf23Field.ok)
  /\ (ret.op = "ParameterCovariance" /\ ret.arg \notin ModelType)
       => (ret.what = "unknown field model" /\ ~pcov.ok)
  /\ (uf23Field # NoObject /\ uf23Field.fModelType \notin ModelType)
       => ~uf23Field.ok
  /\ (pcov # NoObject /\ pcov.fModelType \notin ModelType) => ~pcov.ok

\* both constructors were called with a tag outside the enumeration and threw
BothUnknownModelsThrown ==
  /\ uf23Field # NoObject /\ uf23Field.fModelType \notin ModelType
  /\ uf23Field.what = "unknown field model"
  /\ pcov # NoObject /\ pcov.fModelType \notin ModelType
  /\ pcov.what = "unknown field model"

\* C3: for each of the eight model types, constructing a ParameterCovariance
\* succeeds and selects a non-empty packed factor and a non-empty index list.
EveryModelConstructs ==
  (ret.op = "ParameterCovariance" /\ ret.arg \in ModelType)
    => /\ ret.what = ""
       /\ pcov.ok
       /\ pcov.fL # <<>>
       /\ pcov.fIndices # <<>>

\* C4: for a constructed ParameterCovariance, GetDimension() = n is the
\* dimension the packed factor implies: L has n(n+1)/2 entries and V is
\* n x n.
DimensionConsistent ==
  pcov.ok =>
    LET n == GetDimension(pcov)
    IN  /\ 2 * Len(pcov.fL) = n * (n + 1)
        /\ Len(pcov.fV) = n
        /\ \A i \in 1..Len(pcov.fV) : Len(pcov.fV[i]) = n

\* GetDimension() returned the positive number of rows of V
DimensionReturned ==
  /\ pcov.ok
  /\ ret.op = "GetDimension"
  /\ ret.val > 0
  /\ ret.val = Len(pcov.fV)

\* sum over k = 0..min(i, j) of L[i(i+1)/2 + k] * L[j(j+1)/2 + k]
PackedProduct(L, i, j) ==
  LET m == (IF i <= j THEN i ELSE j) + 1
  IN  BSum(AsSeq([k \in 1..m |->
                   BMul(L[(i * (i + 1)) \div 2 + k],
                        L[(j * (j + 1)) \div 2 + k])], m))

\* C5: the covariance matrix derived at construction has, for 0 <= j <= i < n,
\* V[i][j] = V[j][i] = sum over k = 0..min(i, j) of
\* L[i(i+1)/2 + k] * L[j(j+1)/2 + k], and every packed index VfromL reads
\* lies inside L.
CovarianceFromFactor ==
  pcov.ok =>
    LET n == GetDimension(pcov)
    IN  \A i \in 0..(n - 1) : \A j \in 0..i :
          /\ pcov.fV[i + 1][j + 1] = pcov.fV[j + 1][i + 1]
          /\ pcov.fV[i + 1][j + 1] = PackedProduct(pcov.fL, i, j)
          /\ \A k \in 0..KBound(i, j) :
               /\ index(i, k) < Len(pcov.fL)
               /\ index(j, k) < Len(pcov.fL)

\* GetCovarianceMatrix() returned a matrix with a nonzero off-diagonal pair
CovarianceReturned ==
  /\ pcov.ok
  /\ ret.op = "GetCovarianceMatrix"
  /\ ret.val[2][1] # BZero
  /\ ret.val[2][1] = ret.val[1][2]

\* the offsets of the unit vectors are the columns of L: the sum over the
\* columns of their products
ColumnProducts(self) ==
  LET n == GetDimension(self)
      col == AsSeq([k \in 1..n |-> GetRandomOffset(self, UnitVector(n, k))], n)
  IN  AsSeq([i \in 1..n |->
              AsSeq([j \in 1..n |->
                      BSum(AsSeq([k \in 1..n |->
                                   BMul(col[k][i], col[k][j])], n))], n)], n)

\* ColumnProducts of the object of every tag that constructs, evaluated once
OffsetCovariances ==
  AsSeq([k \in 1..(MaxTag + 1) |->
          IF CovarianceObjects[k].ok THEN ColumnProducts(CovarianceObjects[k])
                                     ELSE <<>>], MaxTag + 1)

\* C6: GetRandomOffset(z) for a z of length n returns delta of length n with
\* delta[i] = sum over k = 0..i of L[i(i+1)/2 + k] * z[k], L being the packed
\* factor V was derived from: the offsets of the unit vectors have the
\* covariance V.
OffsetIsFactorTimesDraw ==
  /\ ret.op = "GetRandomOffset" =>
       LET n == GetDimension(pcov)
       IN  /\ Len(ret.val) = n
           /\ \A i \in 0..(n - 1) :
                ret.val[i + 1] =
                  BSum(AsSeq([k \in 1..(i + 1) |->
                               BMul(pcov.fL[(i * (i + 1)) \div 2 + k],
                                    BInt(ret.arg[k]))], i + 1))
  /\ pcov.ok => pcov.fV = OffsetCovariances[pcov.fModelType + 1]

\* GetRandomOffset returned a nonzero offset for a draw with negative entries
OffsetReturned ==
  /\ ret.op = "GetRandomOffset"
  /\ \E k \in 1..Len(ret.val) : ret.arg[k] < 0 /\ ret.val[k] # BZero

SigmasMatchFixture ==
  \A t \in 1..Len(TestModels) :
    (ret.op = "ParameterCovariance" /\ ret.arg = TestModels[t])
      => /\ pcov.ok
         /\ Len(parUncertainties[t]) = Len(pcov.fV)
         /\ \A i \in 1..Len(pcov.fV) :
              CloseTo(pcov.fV[i][i], DecValue(parUncertainties[t][i]))

\* C9: SetParameters with a vector whose length is not 26 throws the
\* size-mismatch exception and leaves the parameters and the cached pitch
\* values as they were: GetParameters and Evaluate see the old values.
SizeMismatchLeavesObject ==
  [][(ret'.op = "SetParameters" /\ Len(ret'.arg) # eNpar)
       => /\ ret'.what = "invalid parameter vector"
          /\ uf23Field' = uf23Field
          /\ GetParameters(uf23Field') = GetParameters(uf23Field)
          /\ \A pos \in TestPositions :
               Evaluate(uf23Field', pos) = Evaluate(uf23Field, pos)]_vars

\* SetParameters threw for a vector one entry too long
SizeMismatchThrown ==
  /\ uf23Field.ok
  /\ ret.op = "SetParameters"
  /\ Len(ret.arg) = eNpar + 1
  /\ ret.what = "invalid parameter vector"

\* C10: GetParameters() immediately followed by SetParameters() with the
\* returned vector leaves the stored parameters, the cached values and the
\* result of Evaluate at every position unchanged.
GetSetRoundTrip ==
  [][(ret.op = "GetParameters" /\ ret'.op = "SetParameters"
        /\ ret'.arg = ret.val)
       => /\ ret'.what = ""
          /\ uf23Field' = uf23Field
          /\ \A pos \in TestPositions :
               Evaluate(uf23Field', pos) = Evaluate(uf23Field, pos)]_vars

\* SetParameters stored the vector GetParameters returns, in a state an
\* earlier SetParameters with another vector has made
RoundTripDone ==
  /\ uf23Field.ok
  /\ ret.op = "SetParameters"
  /\ ret.what = ""
  /\ ret.arg = GetParameters(uf23Field)
  /\ ret.arg \notin GoodVectors(uf23Field.fModelType)
  /\ ret.arg # CentralValues[uf23Field.fModelType + 1]


\* C11: after construction and after every successful SetParameters the
\* cached sine, cosine and tangent of the disk pitch are those of the stored
\* disk pitch, and in an expX object the stored poloidal Z is the product of
\* the stored poloidal A and the tangent of the stored poloidal xi.
DerivedMembersCoherent(self) ==
  /\ self.fSinPitch = FSin(self.fParameters[eDiskPitch])
  /\ self.fCosPitch = FCos(self.fParameters[eDiskPitch])
  /\ self.fTanPitch = FTan(self.fParameters[eDiskPitch])
  /\ self.fModelType = expX =>
       self.fParameters[ePoloidalZ] =
         FMul(self.fParameters[ePoloidalA], FTan(self.fParameters[ePoloidalXi]))

CachesFollowParameters == uf23Field.ok => DerivedMembersCoherent(uf23Field)

\* an expX object whose pitch and xi a successful SetParameters has changed
CachesRecomputed ==
  /\ uf23Field.ok
  /\ uf23Field.fModelType = expX
  /\ ret.op = "SetParameters"
  /\ ret.what = ""
  /\ uf23Field.fParameters[ePoloidalXi]
       # NominalFields[expX + 1].fParameters[ePoloidalXi]
  /\ uf23Field.fParameters[ePoloidalZ]
       # NominalFields[expX + 1].fParameters[ePoloidalZ]

\* C12: GetMaximumSquaredRadius returns the square of the radius given to
\* the constructor (900 for the radius 30) for every model and in every
\* state of the object: no call changes fMaxRadiusSquared, and the value
\* returned is the threshold operator() compares the squared distance with.
MaximumSquaredRadiusFixed ==
  [][/\ (ret'.op = "UF23Field" /\ uf23Field'.ok) =>
          uf23Field'.fMaxRadiusSquared = ret'.arg[2] * ret'.arg[2]
     /\ uf23Field.ok =>
          uf23Field'.fMaxRadiusSquared = uf23Field.fMaxRadiusSquared
     /\ ret'.op = "GetMaximumSquaredRadius" =>
          ret'.val = uf23Field'.fMaxRadiusSquared
     /\ ret'.op = "operator()" =>
          (ret'.val = ZeroVector <=>
             SquaredLength(ret'.arg) > GetMaximumSquaredRadius(uf23Field'))]_vars

\* 900 is returned by an object whose parameters SetParameters has changed
MaximumSquaredRadiusReturned ==
  /\ ret.op = "GetMaximumSquaredRadius"
  /\ ret.val = 900
  /\ uf23Field.fParameters
       # NominalFields[uf23Field.fModelType + 1].fParameters


\* an evaluation at a position on the axis that is not beyond the cutoff
OnAxisEvaluated ==
  /\ ret.op = "operator()"
  /\ ret.arg[1] = 0 /\ ret.arg[2] = 0
  /\ ~BeyondCutoff(uf23Field, ret.arg)

\* C13 as stated: for every model with a toroidal halo and every z within
\* the cutoff, the toroidal halo field at a position on the axis is the zero
\* vector.
ToroidalZeroOnAxis ==
  (OnAxisEvaluated /\ uf23Field.fModelType # twistX) =>
    ret.val.b.a = ZeroVector

\* What GetToroidalHaloField returns there: (0, bPhi, 0), the azimuthal
\* field of Eq. (21) at r = 0 taken along +y (cosPhi = 1, sinPhi = 0); it is
\* the zero vector only when the amplitude (fToroidalBN for z >= 0,
\* fToroidalBS for z < 0) is zero.
ToroidalAlongYOnAxis ==
  (OnAxisEvaluated /\ uf23Field.fModelType # twistX) =>
    /\ ret.val.b.a = Vector3(Zero, ToroidalBPhi(uf23Field, ret.arg), Zero)
    /\ ret.val.b.a = ZeroVector =>
         uf23Field.fParameters[IF ret.arg[3] >= 0 THEN eToroidalBN
                                                  ELSE eToroidalBS] = Zero

\* a toroidal halo field on the axis, below the plane, that is not zero
ToroidalOnAxisNotZero ==
  /\ OnAxisEvaluated
  /\ uf23Field.fModelType # twistX
  /\ ret.arg[3] < 0
  /\ ret.val.b.a.v[2] # Zero

\* C14: an evaluation on the axis raises no error and divides by no zero
\* cylindrical radius: the disk field (spiral or spur) is the zero vector
\* and the poloidal field, also the one the twisted halo of twistX is made
\* of, is (0, 0, Bz).
AxisFieldsWellDefined ==
  OnAxisEvaluated =>
    /\ ret.what = ""
    /\ ret.val.a = ZeroVector
    /\ (IF uf23Field.fModelType = twistX THEN ret.val.b ELSE ret.val.b.b)
         = Vector3(Zero, Zero, PoloidalTerms(uf23Field, ret.arg)[3])

\* the twisted halo of a twistX object evaluated on the axis
TwistedOnAxisEvaluated ==
  /\ OnAxisEvaluated
  /\ uf23Field.fModelType = twistX
  /\ ret.arg[3] # 0
  /\ ret.val.b.v[3] # Zero


\* C15: in the poloidal halo field a negative ap raises the error "ap = ..."
\* exactly when the position is away from the axis (r above the smallest
\* positive normal double); with a negative ap on the axis no error is
\* raised and a = 0 is used; with ap >= 0 no error is raised.
NegativeApIsFatalOffAxis ==
  (ret.op = "operator()" /\ ~BeyondCutoff(uf23Field, ret.arg)) =>
    /\ ret.what \in {"", "ap = "}
    /\ ret.what = "ap = " <=>
         /\ ApNegative(uf23Field, ret.arg)
         /\ AboveMin(ret.arg[1] * ret.arg[1] + ret.arg[2] * ret.arg[2])
    /\ ret.what = "" =>
         ret.val = VectorSum(GetDiskField(uf23Field, ret.arg),
                             GetHaloField(uf23Field, ret.arg))

\* the error raised away from the axis by a field with negative A and Z
NegativeApRaised ==
  /\ ret.op = "operator()"
  /\ ret.what = "ap = "
  /\ ret.arg = <<3, 4, 12>>
  /\ uf23Field.fParameters[ePoloidalA] = FNeg(One)


\* C16: a SetParameters that runs while an operator() runs can show it an
\* intermediate state: the parameter array partly overwritten, or wholly
\* overwritten with the pitch caches and the derived fPoloidalZ of expX
\* still the old ones.  An operator() that runs while no SetParameters is in
\* flight reads one state only, in which the array is the constructor's or a
\* whole vector stored and the derived members follow it.
WholeObjects(self) ==
  {NominalFields[self.fModelType + 1]}
    \cup {SetParameters(NominalFields[self.fModelType + 1], newpar) :
            newpar \in ConcVectors(self.fModelType)}

SequentialEvaluateSeesWholeState ==
  (ret.op = "operator()" /\ ret.what = "" /\ ~ret.raced) =>
    /\ ret.seen[1] = ret.seen[2]
    /\ ret.seen[1] \in WholeObjects(uf23Field)
    /\ DerivedMembersCoherent(ret.seen[1])
    /\ ret.val = Evaluate(ret.seen[1], ret.arg)

\* an operator() of an expX object that read the array partly overwritten
\* in GetDiskField, and wholly overwritten, with stale pitch caches and a
\* stale fPoloidalZ, in GetHaloField
IntermediateStateObserved ==
  /\ ret.op = "operator()"
  /\ ret.raced
  /\ uf23Field.fModelType = expX
  /\ \E newpar \in ConcVectors(expX) :
       /\ ret.seen[1].fParameters[eDiskB1] = Store(newpar)[eDiskB1]
       /\ ret.seen[1].fParameters[eDiskPitch] # Store(newpar)[eDiskPitch]
       /\ ret.seen[2].fParameters = Store(newpar)
  /\ ret.seen[2].fSinPitch # FSin(ret.seen[2].fParameters[eDiskPitch])
  /\ ret.seen[2].fParameters[ePoloidalZ]
       # FMul(ret.seen[2].fParameters[ePoloidalA],
              FTan(ret.seen[2].fParameters[ePoloidalXi]))
  /\ \A self \in WholeObjects(uf23Field) : ret.val # Evaluate(self, ret.arg)


\* C17: over any sequence of calls the only state that changes is the
\* parameter array of the UF23Field with the members derived from it, and
\* only SetParameters changes it: operator(), GetParameters and
\* GetMaximumSquaredRadius leave the object as it is, fModelType and
\* fMaxRadiusSquared never change, and a constructed ParameterCovariance
\* (fL, fV, fIndices) never changes, whatever is called on it.
OnlySetParametersWrites ==
  [][/\ uf23Field' # uf23Field =>
          /\ ret'.op = "SetParameters" /\ ret'.what = ""
          /\ DOMAIN uf23Field' = DOMAIN uf23Field
          /\ \A f \in DOMAIN uf23Field :
               uf23Field'[f] # uf23Field[f] =>
                 f \in {"fParameters", "fSinPitch", "fCosPitch", "fTanPitch"}
     /\ ret'.op \in {"operator()", "GetParameters", "GetMaximumSquaredRadius"}
          => uf23Field' = uf23Field
     /\ pcov.ok => pcov' = pcov
     /\ pcov' # pcov => ret'.op = "ParameterCovariance"]_vars

\* a random offset drawn from a constructed ParameterCovariance while the
\* UF23Field holds parameters a SetParameters has stored
BothObjectsUsed ==
  /\ ret.op = "GetRandomOffset"
  /\ pcov.ok
  /\ firstOffset.between
  /\ uf23Field.fParameters
       # NominalFields[uf23Field.fModelType + 1].fParameters


\* C18 as stated: for every model and every vector v of length 26,
\* SetParameters(v) followed at once by GetParameters() returns v in every
\* one of the 26 positions.
SetThenGetReturnsVector ==
  [][(ret.op = "SetParameters" /\ ret.what = "" /\ ret'.op = "GetParameters")
       => ret'.val = ret.arg]_vars

\* the doubles a and b differ by at most one unit in the last place of b
WithinUlp(a, b) ==
  \/ a = b
  \/ /\ IsNum(a) /\ IsNum(b) /\ a # Zero /\ b # Zero
     /\ Abs(a.m * 2^(a.e - Min(a.e, b.e)) - b.m * 2^(b.e - Min(a.e, b.e)))
          <= 2^(b.e - Min(a.e, b.e))

\* C18, amended: SetParameters(v) followed at once by GetParameters()
\* returns v[i] exactly in every position i whose unit is 1, except that in
\* an expX object the position of fPoloidalZ returns
\* fPoloidalA * tan(fPoloidalXi); in a position whose unit is the degree it
\* returns (v[i] * degree) / degree, which is v[i] up to one unit in the last
\* place and need not be v[i].
SetThenGetReturnsVectorRounded ==
  [][(ret.op = "SetParameters" /\ ret.what = "" /\ ret'.op = "GetParameters")
       => \A i \in 0..(eNpar - 1) :
            IF uf23Field.fModelType = expX /\ i = ePoloidalZ
            THEN ret'.val[i + 1] =
                   FMul(FMul(ret.arg[ePoloidalA + 1], unitConv[ePoloidalA + 1]),
                        FTan(FMul(ret.arg[ePoloidalXi + 1],
                                  unitConv[ePoloidalXi + 1])))
            ELSE IF unitConv[i + 1] = One
            THEN ret'.val[i + 1] = ret.arg[i + 1]
            ELSE /\ ret'.val[i + 1]
                      = FDiv(FMul(ret.arg[i + 1], degree), degree)
                 /\ WithinUlp(ret'.val[i + 1], ret.arg[i + 1])]_vars

\* GetParameters of an object that holds the pitch SetParameters stores for
\* v degrees returned another pitch, one unit in the last place away
PitchReturnedRounded ==
  /\ ret.op = "GetParameters"
  /\ \E v \in TestValues :
       /\ uf23Field.fParameters[eDiskPitch] = FMul(v, degree)
       /\ ret.val[eDiskPitch + 1] # v
       /\ WithinUlp(ret.val[eDiskPitch + 1], v)


\* C19: whatever parameters the object holds, the disk term of the value
\* operator() returns inside the cutoff sphere is the spur field if the model
\* type is spur and the smooth spiral field otherwise, and the halo term is
\* the twisted poloidal field if the model type is twistX and the sum of the
\* toroidal and the poloidal field otherwise
BranchesFollowModelType ==
  (ret.op = "operator()" /\ ret.what = "" /\ ~BeyondCutoff(uf23Field, ret.arg))
    => /\ ret.val.fn = "operator+"
       /\ (uf23Field.fModelType = spur
              => ret.val.a = GetSpurField(uf23Field, ret.arg))
       /\ (uf23Field.fModelType # spur
              => ret.val.a = GetSpiralField(uf23Field, ret.arg))
       /\ (uf23Field.fModelType = twistX
              => ret.val.b = GetTwistedHaloField(uf23Field, ret.arg))
       /\ (uf23Field.fModelType # twistX
              => /\ ret.val.b.fn = "operator+"
                 /\ ret.val.b.a = GetToroidalHaloField(uf23Field, ret.arg)
                 /\ ret.val.b.b = GetPoloidalHaloField(uf23Field, ret.arg))

\* a spur object whose parameters SetParameters has changed was evaluated off
\* the axis, inside the cutoff sphere, and returned a spur disk field
SpurEvaluatedAfterSet ==
  /\ ret.op = "operator()"
  /\ ret.what = ""
  /\ uf23Field.fModelType = spur
  /\ uf23Field.fParameters # NominalFields[spur + 1].fParameters
  /\ ~BeyondCutoff(uf23Field, ret.arg)
  /\ ret.arg[1] * ret.arg[1] + ret.arg[2] * ret.arg[2] > 0
  /\ ret.val.a.fn = "GetSpurField"


\* the positions of fIndices that hold the identifier id
PositionsOf(self, id) == {k \in 1..Len(self.fIndices) : self.fIndices[k] = id}

\* C20: the index list of the base covariance object holds the toroidal
\* radius at two consecutive positions and the toroidal width nowhere, and
\* the vector the sampling loop sets in the base model has the offsets of
\* both positions added to the central toroidal radius and the central
\* toroidal width unchanged, as has the object afterwards
BaseSampleMovesRadiusTwice ==
  (pcov.ok /\ pcov.fModelType = base)
    => /\ \E k \in 1..(Len(pcov.fIndices) - 1) :
            PositionsOf(pcov, eToroidalR) = {k, k + 1}
       /\ PositionsOf(pcov, eToroidalW) = {}
       /\ (ret.op = "SetParameters" /\ firstOffset # NoValue)
            => /\ \E normal \in TestNormals(GetDimension(pcov)) :
                    \E k \in 1..(Len(pcov.fIndices) - 1) :
                      ret.arg[eToroidalR + 1] =
                        FAdd(FAdd(CentralValues[base + 1][eToroidalR + 1],
                                  FDec(GetRandomOffset(pcov, normal)[k])),
                             FDec(GetRandomOffset(pcov, normal)[k + 1]))
               /\ ret.arg[eToroidalW + 1] =
                    CentralValues[base + 1][eToroidalW + 1]
               /\ uf23Field.fParameters[eToroidalW] =
                    NominalFields[base + 1].fParameters[eToroidalW]

\* the sampling loop has set a vector in the base model whose toroidal
\* radius is the central value plus two offsets that are not zero
BaseSampleSet ==
  /\ pcov.ok
  /\ pcov.fModelType = base
  /\ uf23Field.ok
  /\ ret.op = "SetParameters"
  /\ ret.what = ""
  /\ \E c \in DOMAIN ret.arg[eToroidalR + 1] : c = "fn"
  /\ ret.arg[eToroidalR + 1].fn = "add"
  /\ ret.arg[eToroidalR + 1].a.fn = "add"
  /\ ret.arg[eToroidalR + 1].a.a = CentralValues[base + 1][eToroidalR + 1]


\* the identifiers of the index list
Mapped(self) == {self.fIndices[k] : k \in 1..Len(self.fIndices)}

\* C21: the vector every pass of the sampling loop sets is the vector
\* GetParameters returned for the new object plus the offsets of one draw
\* added through the index list, in the first pass and in every later one,
\* and holds the value of the new object in every position whose identifier
\* is not in the index list
SampleStartsFromCentralValues ==
  (pcov.ok /\ uf23Field.ok /\ ret.op = "SetParameters")
    => /\ \E normal \in TestNormals(GetDimension(pcov)) :
            ret.arg = AddDelta(GetParameters(NominalFields[uf23Field.fModelType + 1]),
                               GetParameterIndices(pcov),
                               GetRandomOffset(pcov, normal), 1)
       /\ \A i \in 0..(eNpar - 1) \ Mapped(pcov) :
            ret.arg[i + 1] =
              GetParameters(NominalFields[uf23Field.fModelType + 1])[i + 1]

\* a later pass of the loop has set a vector with another draw than the
\* first pass, and the vector differs from the central values
LaterSampleSet ==
  /\ pcov.ok
  /\ uf23Field.ok
  /\ ret.op = "SetParameters"
  /\ ret.what = ""
  /\ firstOffset # NoValue
  /\ firstOffset.between
  /\ ret.arg # CentralValues[uf23Field.fModelType + 1]
  /\ ret.arg # AddDelta(CentralValues[uf23Field.fModelType + 1],
                        GetParameterIndices(pcov), firstOffset.val, 1)


\* the parameters the case of the model mt assigns in the constructor
AssignedBySwitch(mt) ==
  LET disk == {eDiskB1, eDiskB2, eDiskB3, eDiskH, eDiskPhase1, eDiskPhase2,
               eDiskPhase3, eDiskPitch, eDiskW}
      toroidal == {eToroidalBN, eToroidalBS, eToroidalR, eToroidalW, eToroidalZ}
      poloidal == {ePoloidalB, ePoloidalP, ePoloidalR, ePoloidalZ}
  IN  IF mt = spur
      THEN {eDiskB1, eDiskH, eDiskPhase1, eDiskPitch, eDiskW, eSpurCenter,
            eSpurLength, eSpurWidth, ePoloidalW, eStriation}
             \cup poloidal \cup toroidal
      ELSE IF mt = twistX
      THEN disk \cup poloidal \cup {ePoloidalW, eStriation, eTwistingTime}
      ELSE IF mt = expX
      THEN disk \cup poloidal \cup toroidal
             \cup {ePoloidalA, ePoloidalXi, eStriation}
      ELSE disk \cup poloidal \cup toroidal \cup {ePoloidalW, eStriation}

\* zero, or 10^6 kpc for the poloidal a
NeutralValue(i) == IF i = ePoloidalA THEN FMul(Lit(1000000, 1), kpc) ELSE Zero

\* what holds of the object obj the constructor has returned
NeutralWhereUnassigned(obj) ==
  /\ \A i \in 0..(eNpar - 1) \ AssignedBySwitch(obj.fModelType) :
       obj.fParameters[i] = NeutralValue(i)
  /\ (ePoloidalA \in AssignedBySwitch(obj.fModelType)) = (obj.fModelType = expX)

\* what holds of the vector val GetParameters returns for the new object obj
NeutralReported(obj, val) ==
  \A i \in 0..(eNpar - 1) \ AssignedBySwitch(obj.fModelType) :
    val[i + 1] = (IF i = ePoloidalA THEN Lit(1000000, 1) ELSE Zero)

\* C22: when the constructor returns an object, every parameter the case of
\* its model does not assign is zero, except fPoloidalA, which is 10^6 kpc
\* in every model but expX; GetParameters called on the new object returns
\* these values (zero, 10^6) in these positions
NewObjectHoldsNeutralValues ==
  [][((ret'.op = "UF23Field" /\ uf23Field'.ok)
        => NeutralWhereUnassigned(uf23Field'))
     /\ ((ret.op = "UF23Field" /\ ret'.op = "GetParameters")
           => NeutralReported(uf23Field', ret'.val))]_vars

\* GetParameters of a twistX object that holds what its constructor stored
\* returned zero for the toroidal radius and 10^6 for the poloidal a
NeutralValuesReturned ==
  /\ ret.op = "GetParameters"
  /\ uf23Field.ok
  /\ uf23Field.fModelType = twistX
  /\ uf23Field.fParameters = SwitchResults[twistX + 1]
  /\ ret.val[eToroidalR + 1] = Zero
  /\ ret.val[ePoloidalA + 1] = Lit(1000000, 1)
  /\ ret.val[eTwistingTime + 1] # Zero


\* a double that is not zero: a nonzero number, the tangent of one (no
\* double but zero is a multiple of pi), or a product of such doubles of
\* moderate size
RECURSIVE NonZero(_)
NonZero(t) ==
  IF IsNum(t) THEN t # Zero
  ELSE IF t.fn = "tan" THEN IsNum(t.x) /\ t.x # Zero
  ELSE t.fn = "mul" /\ NonZero(t.a) /\ NonZero(t.b)

\* the term t holds a quotient whose divisor is zero
RECURSIVE ZeroDivisor(_)
ZeroDivisor(t) ==
  IF "m" \in DOMAIN t THEN FALSE
  ELSE IF "v" \in DOMAIN t THEN \E k \in 1..3 : ZeroDivisor(t.v[k])
  ELSE IF "args" \in DOMAIN t
  THEN \E k \in 1..Len(t.args) : ZeroDivisor(t.args[k])
  ELSE IF "b" \in DOMAIN t
  THEN (t.fn = "div" /\ t.b = Zero) \/ ZeroDivisor(t.a) \/ ZeroDivisor(t.b)
  ELSE IF "a" \in DOMAIN t THEN ZeroDivisor(t.a)
  ELSE IF "x" \in DOMAIN t THEN ZeroDivisor(t.x)
  ELSE FALSE

\* the object holds what its constructor stored
AsConstructed(self) ==
  /\ self.ok
  /\ self.fParameters = SwitchResults[self.fModelType + 1]
  /\ self.fTanPitch = FTan(SwitchResults[self.fModelType + 1][eDiskPitch])

\* C23: in an object that holds what its constructor stored, every member
\* the field functions of its model divide by is not zero, so no parameter
\* that is zero is among them, and the halo field operator() returns for it
\* holds no quotient with a zero divisor
NominalDivisorsNonZero ==
  AsConstructed(uf23Field)
    => /\ \A k \in 1..Len(DivisorsRead(uf23Field)) :
            NonZero(DivisorsRead(uf23Field)[k])
       /\ (ret.op = "operator()" /\ ret.what = ""
              /\ ~BeyondCutoff(uf23Field, ret.arg))
            => ~ZeroDivisor(ret.val.b)

\* a twistX object that holds what its constructor stored, with a toroidal
\* width and a spur width of zero, was evaluated off the axis
TwistedNominalEvaluated ==
  /\ AsConstructed(uf23Field)
  /\ uf23Field.fModelType = twistX
  /\ uf23Field.fParameters[eToroidalW] = Zero
  /\ uf23Field.fParameters[eSpurWidth] = Zero
  /\ ret.op = "operator()"
  /\ ret.what = ""
  /\ ~BeyondCutoff(uf23Field, ret.arg)
  /\ ret.arg[1] * ret.arg[1] + ret.arg[2] * ret.arg[2] > 0
  /\ ret.val.b.fn = "Vector3"


\* the term s occurs in the term t
RECURSIVE SubTerm(_, _)
SubTerm(t, s) ==
  \/ t = s
  \/ IF "m" \in DOMAIN t THEN FALSE
     ELSE IF "v" \in DOMAIN t THEN \E k \in 1..3 : SubTerm(t.v[k], s)
     ELSE IF "args" \in DOMAIN t
     THEN \E k \in 1..Len(t.args) : SubTerm(t.args[k], s)
     ELSE IF "b" \in DOMAIN t THEN SubTerm(t.a, s) \/ SubTerm(t.b, s)
     ELSE IF "a" \in DOMAIN t THEN SubTerm(t.a, s)
     ELSE IF "x" \in DOMAIN t THEN SubTerm(t.x, s)
     ELSE FALSE

\* the z component of the halo term of a value operator() returned inside
\* the cutoff sphere: Bz of the poloidal field in every model
HaloBz(self, val) ==
  IF self.fModelType = twistX THEN val.b.v[3] ELSE val.b.b.v[3]

\* fPoloidalB * exp(-a/fPoloidalR)  and
\* fPoloidalB * (1 - 1/(1 + exp(-(a - fPoloidalR)/fPoloidalW)))
ExponentialDecay(self, a) ==
  FMul(self.fParameters[ePoloidalB],
       Fn("exp", <<FDiv(FNeg(a), self.fParameters[ePoloidalR])>>))

SigmoidDecay(self, a) ==
  FMul(self.fParameters[ePoloidalB],
       FSub(One, FDiv(One, FAdd(One,
         Fn("exp", <<FDiv(FNeg(FSub(a, self.fParameters[ePoloidalR])),
                          self.fParameters[ePoloidalW])>>)))))

\* operator() has returned a value for a position inside the cutoff sphere
EvaluatedInside ==
  /\ uf23Field.ok
  /\ ret.op = "operator()"
  /\ ret.what = ""
  /\ ~BeyondCutoff(uf23Field, ret.arg)

\* the stored fPoloidalA is not the 1 Gpc of the constructor
FiniteScale(self) == self.fParameters[ePoloidalA] # FMul(Lit(1000000, 1), kpc)

\* C24 as stated: in every state, after SetParameters too, the poloidal
\* amplitude of a returned field is the exponential if the stored
\* fPoloidalA is finite and the sigmoid if it is 1 Gpc
DecayFormFollowsScale ==
  EvaluatedInside
    => SubTerm(HaloBz(uf23Field, ret.val),
               IF FiniteScale(uf23Field)
               THEN ExponentialDecay(uf23Field, PoloidalA(uf23Field, ret.arg))
               ELSE SigmoidDecay(uf23Field, PoloidalA(uf23Field, ret.arg)))

\* C24 amended: the constructor stores a finite fPoloidalA in expX and
\* 1 Gpc in every other model; in every state, whatever fPoloidalA
\* SetParameters has stored, the poloidal amplitude of a returned field is
\* the exponential in expX and the sigmoid in every other model
DecayFormFollowsModelType ==
  /\ (ret.op = "UF23Field" /\ uf23Field.ok)
       => (FiniteScale(uf23Field) = (uf23Field.fModelType = expX))
  /\ EvaluatedInside
       => SubTerm(HaloBz(uf23Field, ret.val),
                  IF uf23Field.fModelType = expX
                  THEN ExponentialDecay(uf23Field,
                                        PoloidalA(uf23Field, ret.arg))
                  ELSE SigmoidDecay(uf23Field, PoloidalA(uf23Field, ret.arg)))

\* a field was returned by an object that is not expX and holds a finite
\* fPoloidalA, or by an expX object that holds 1 Gpc
ScaleAgainstModelType ==
  /\ EvaluatedInside
  /\ FiniteScale(uf23Field) # (uf23Field.fModelType = expX)
  /\ ret.arg[1] * ret.arg[1] + ret.arg[2] * ret.arg[2] > 0


\* the distance of the branch i from the radius of the position pos
BranchDistance(pos, rr, i) ==
  Abs(ISqrt(pos[1] * pos[1] + pos[2] * pos[2]) - rr[i + 2])

\* the branch 0 is closer than the branch -1 and as close as the branch 1
\* or closer
BranchZeroWins(pos, rr) ==
  /\ BranchDistance(pos, rr, 0) < BranchDistance(pos, rr, -1)
  /\ BranchDistance(pos, rr, 0) <= BranchDistance(pos, rr, 1)

\* C25: GetSpurField returns the zero vector unless the branch 0 is the
\* closest of the three: off the axis it returns the value of the spur
\* formula if the branch 0 is closer than the branch -1 and no farther than
\* the branch 1 (a tie of 0 and 1 included), and the zero vector otherwise
\* (a tie of -1 and 0 included)
SpurFieldOnlyOnBranchZero ==
  ret.op = "GetSpurField"
    => /\ (~BranchZeroWins(ret.arg[1], ret.arg[2]))
            => ret.val = Vector3(Zero, Zero, Zero)
       /\ (/\ BranchZeroWins(ret.arg[1], ret.arg[2])
           /\ ret.arg[1][1] * ret.arg[1][1] + ret.arg[1][2] * ret.arg[1][2] > 0)
            => ret.val.fn = "GetSpurField"

\* GetSpurField returned zero off the axis where the branches -1 and 0 are
\* equally close and the branch 1 is farther
SpurTieReturnedZero ==
  /\ ret.op = "GetSpurField"
  /\ ret.arg[1][1] * ret.arg[1][1] + ret.arg[1][2] * ret.arg[1][2] > 0
  /\ BranchDistance(ret.arg[1], ret.arg[2], -1)
       = BranchDistance(ret.arg[1], ret.arg[2], 0)
  /\ BranchDistance(ret.arg[1], ret.arg[2], 0)
       < BranchDistance(ret.arg[1], ret.arg[2], 1)
  /\ ret.arg[2][1] # ret.arg[2][2]
  /\ ret.val = Vector3(Zero, Zero, Zero)


\* the cylindrical components of the poloidal halo field at pos
PoloidalCyl(self, pos) ==
  CartToCyl(GetPoloidalHaloField(self, pos).v, CosPhi(pos), SinPhi(pos)).v

\* the Cartesian vector of the radial and the vertical component of the
\* poloidal halo field at pos and the azimuthal component bPhi
WithAzimuth(self, pos, bPhi) ==
  CylToCart(<<PoloidalCyl(self, pos)[1], bPhi, PoloidalCyl(self, pos)[3]>>,
            CosPhi(pos), SinPhi(pos))

\* C26: the field GetTwistedHaloField returns has the radial and the
\* vertical cylindrical component of the poloidal halo field at the position
\* and an azimuthal component that is exactly zero if the twisting time is
\* zero, if the cylindrical radius is zero or if 2|z|/z0 exceeds maxArg
\* (|z| >= 3546 kpc), and the sheared term of Eq. (45) otherwise
TwistChangesAzimuthOnly ==
  ret.op = "GetTwistedHaloField"
    => IF \/ uf23Field.fParameters[eTwistingTime] = Zero
          \/ ret.arg[1] * ret.arg[1] + ret.arg[2] * ret.arg[2] = 0
          \/ Abs(ret.arg[3]) >= 3546
       THEN ret.val = WithAzimuth(uf23Field, ret.arg, Zero)
       ELSE /\ ret.val = WithAzimuth(uf23Field, ret.arg,
                            TwistedBPhi(uf23Field, ret.arg,
                                        PoloidalCyl(uf23Field, ret.arg)[1],
                                        PoloidalCyl(uf23Field, ret.arg)[3]))
            /\ ret.val # WithAzimuth(uf23Field, ret.arg, Zero)

\* GetTwistedHaloField returned a field without azimuthal component off the
\* axis for a twisting time that is not zero, at a height of 3546 kpc or more
TwistCutOffReturned ==
  /\ ret.op = "GetTwistedHaloField"
  /\ uf23Field.fParameters[eTwistingTime] # Zero
  /\ ret.arg[1] * ret.arg[1] + ret.arg[2] * ret.arg[2] > 0
  /\ Abs(ret.arg[3]) >= 3546
  /\ ret.val = WithAzimuth(uf23Field, ret.arg, Zero)
  /\ ret.val # Vector3(Zero, Zero, Zero)


\* a call of losIntegral is in flight
InLosIntegral == inFlight.reader # NoValue

\* C27: every call of losIntegral returns, and every position the loop hands
\* to operator() has a squared length below the squared cutoff radius, so
\* that operator() does not return its zero vector of the cutoff
LosIntegralTerminates ==
  /\ InLosIntegral ~> ~InLosIntegral
  /\ [](ret.op = "operator()"
          => /\ FLess(SquaredLengthOf(ret.arg),
                      FromInt(GetMaximumSquaredRadius(uf23Field)))
             /\ ret.val # Vector3(Zero, Zero, Zero))

\* What is evaluated lies inside: the second half of C27 alone
LosEvaluatesInside ==
  ret.op = "operator()"
    => /\ FLess(SquaredLengthOf(ret.arg),
                FromInt(GetMaximumSquaredRadius(uf23Field)))
       /\ ret.val # Vector3(Zero, Zero, Zero)

\* a pass of the loop inside the cutoff sphere has left l as it was
LosStalled ==
  /\ InLosIntegral
  /\ inFlight.reader.l # Zero
  /\ FLess(SquaredLengthOf(inFlight.reader.pos), inFlight.reader.rMax2)
  /\ FPlus(inFlight.reader.l, inFlight.reader.dL) = inFlight.reader.l

\* a call of losIntegral has returned after passes of the loop
LosReturned ==
  /\ ret.op = "losIntegral"
  /\ ret.val.l # Zero

=============================================================================
